---- MODULE Spec2Model ----
(***************************************************************************)
(* A model of the tool layer of browser-use-rs: the ToolContext and its    *)
(* lazily extracted DomTree, the tools (navigate, click, input, wait,      *)
(* evaluate, screenshot, hover, select, snapshot, get_clickable_elements), *)
(* the ToolRegistry, the ToolResult constructors and the snapshot          *)
(* renderer.  The browser session is the environment: each of its commands *)
(* either succeeds or fails, chosen nondeterministically per invocation.   *)
(***************************************************************************)
EXTENDS Integers, Sequences, FiniteSets, TLC

VARIABLES
    registry,       \* ToolRegistry.tools: name -> registered tool object
    registered,     \* the register calls made on the registry, in order
    ctor,           \* the constructor call that made the ToolContext
    dom_tree,       \* ToolContext.dom_tree: Option<DomTree>
    page,           \* the document the session currently shows
    extractions,    \* the session.extract_dom calls issued through this context,
                    \* in order: TRUE for one that succeeded
    ncalls,         \* tool invocations made so far on this context
    last,           \* the latest invocation: tool, params, calls made, result
    tr,             \* a ToolResult value being built
    node,           \* an ElementNode tree handed to the renderer
    out             \* the renderer's output for node

vars == <<registry, registered, ctor, dom_tree, page, extractions, ncalls, last, tr, node, out>>

(***************************************************************************)
(* Bounds                                                                  *)
(***************************************************************************)
\* tool invocations on one context
MaxCalls == 3
\* register calls made on a registry after its construction
MaxRegister == 2
\* dispatches through a registry
MaxDispatch == 1
\* nodes of a tree handed to the renderer
MaxNodes == 3
\* the nodes of a classified tree handed to the indexer
MaxClassified == 4

(***************************************************************************)
(* Option, Result, strings                                                 *)
(***************************************************************************)
None == [some |-> FALSE]
Some(x) == [some |-> TRUE, v |-> x]

Ok(x) == [ok |-> TRUE, v |-> x]
Err(e) == [ok |-> FALSE, err |-> e]

\* serde_json::Value
JNull == [t |-> "null"]
JStr(s) == [t |-> "string", s |-> s]
JNum(n) == [t |-> "number", n |-> n]
JBool(b) == [t |-> "bool", b |-> b]
JObj(f) == [t |-> "object", o |-> f]

IsStr(j) == j.t = "string"
IsBool(j) == j.t = "bool"
\* u64 / usize accept the non-negative integers only
IsUnsigned(j) == j.t = "number" /\ j.n >= 0

EmptyMap == [k \in {} |-> 0]
Has(obj, key) == key \in DOMAIN obj

(***************************************************************************)
(* BrowserError                                                            *)
(***************************************************************************)
InvalidArgument(msg) == [kind |-> "InvalidArgument", msg |-> msg]
ElementNotFound(index) == [kind |-> "ElementNotFound", index |-> index]
ToolExecutionFailed(tool, reason) ==
    [kind |-> "ToolExecutionFailed", tool |-> tool, reason |-> reason]
Timeout(selector) == [kind |-> "Timeout", selector |-> selector]
EvaluationFailed(reason) == [kind |-> "EvaluationFailed", reason |-> reason]
ScreenshotFailed(reason) == [kind |-> "ScreenshotFailed", reason |-> reason]
\* the BrowserError a failing BrowserSession method (navigate,
\* wait_for_navigation, find_element, extract_dom) hands back
SessionError(cmd) == [kind |-> "SessionError", cmd |-> cmd]
\* the error of a failing element or tab command, not yet a BrowserError
RawError(cmd) == [kind |-> "Raw", cmd |-> cmd]
\* e.to_string()
to_string(e) == e.cmd \o " failed"

(***************************************************************************)
(* ToolResult                                                              *)
(***************************************************************************)
\* a value serde_json cannot serialize (e.g. a map with non-string keys)
Unserializable == [t |-> "unserializable"]

\* serde_json::to_value
to_value(x) == IF x.t = "unserializable" THEN Err("serialize") ELSE Ok(x)

\* Result::ok
ok(r) == IF r.ok THEN Some(r.v) ELSE None

success(data) ==
    [success |-> TRUE, data |-> data, error |-> None, metadata |-> EmptyMap]

success_with(data) ==
    [success |-> TRUE, data |-> ok(to_value(data)), error |-> None,
     metadata |-> EmptyMap]

failure(error) ==
    [success |-> FALSE, data |-> None, error |-> Some(error),
     metadata |-> EmptyMap]

\* with_metadata rebuilding the result and leaving the error behind
with_metadata_rebuilt(self, key, value) ==
    [success |-> self.success, data |-> self.data, error |-> None,
     metadata |-> [k \in DOMAIN self.metadata \cup {key} |->
                       IF k = key THEN value ELSE self.metadata[k]]]

\* HashMap::insert on the metadata map
with_metadata(self, key, value) ==
    [self EXCEPT !.metadata =
        [k \in DOMAIN self.metadata \cup {key} |->
            IF k = key THEN value ELSE self.metadata[k]]]

(***************************************************************************)
(* ElementNode and DomTree                                                 *)
(***************************************************************************)
ElementNode(tag, attrs, text, vis, inter, idx, kids) ==
    [tag_name |-> tag, attributes |-> attrs, text_content |-> text,
     is_visible |-> vis, is_interactive |-> inter, index |-> idx,
     children |-> kids]

\* ElementNode::get_attribute
get_attribute(n, name) ==
    IF name \in DOMAIN n.attributes THEN Some(n.attributes[name]) ELSE None

DomTree(root, selector_map) == [root |-> root, selector_map |-> selector_map]

\* DomTree::get_selector
get_selector(dom, index) ==
    IF index \in DOMAIN dom.selector_map
    THEN Some(dom.selector_map[index])
    ELSE None

(***************************************************************************)
(* The documents the session can show, and what extraction yields on each  *)
(***************************************************************************)
Pages == {"about:blank", "u1", "u2"}

BlankDom == DomTree(ElementNode("body", EmptyMap, None, TRUE, FALSE, None, <<>>), EmptyMap)

U1Dom ==
    DomTree(
        ElementNode("body", EmptyMap, None, TRUE, FALSE, None, <<
            ElementNode("h1", EmptyMap, Some("Hi"), TRUE, FALSE, None, <<>>),
            ElementNode("button", "id" :> "btn", Some(" Go "), TRUE, TRUE, Some(0), <<>>)
        >>),
        0 :> [css_selector |-> "#btn"])

U2Dom ==
    DomTree(
        ElementNode("body", EmptyMap, None, FALSE, FALSE, None, <<
            ElementNode("a", ("id" :> "link") @@ ("href" :> "u1"), Some("Up"), TRUE, TRUE, Some(0), <<>>),
            ElementNode("input", "id" :> "q", None, TRUE, TRUE, Some(1), <<>>)
        >>),
        (0 :> [css_selector |-> "#link"]) @@ (1 :> [css_selector |-> "#q"]))

\* the tree a successful session.extract_dom() returns while pg is shown
ExtractedDom(pg) ==
    CASE pg = "u1" -> U1Dom
      [] pg = "u2" -> U2Dom
      [] OTHER -> BlankDom

DomTrees == {ExtractedDom(pg) : pg \in Pages}

(***************************************************************************)
(* Session commands: what a tool called, with what, and how it ended       *)
(***************************************************************************)
Cmd(name, arg, succeeded) == [cmd |-> name, arg |-> arg, ok |-> succeeded]

SessionCmds ==
    {"extract_dom", "navigate", "wait_for_navigation", "find_element", "click",
     "type_into", "press_key", "evaluate", "wait_for_element", "capture_screenshot",
     "fs_write"}

\* one outcome per command: for each set in failsets, the outcome in which
\* exactly its commands fail
Outcomes(failsets) == {[c \in SessionCmds |-> c \notin fails] : fails \in failsets}

\* every command succeeds, or one of cmds fails
AtMostOneFails(cmds) == {{}} \cup {{c} : c \in cmds}

\* what an invocation leaves behind
Done(result, trace, dt, pg) ==
    [result |-> result, trace |-> trace, dom_tree |-> dt, page |-> pg]

(***************************************************************************)
(* ToolContext                                                             *)
(***************************************************************************)
\* get_dom without its cache test: every call extracts
get_dom_uncached(dt, pg, o) ==
    IF o["extract_dom"]
    THEN [ret |-> Ok(ExtractedDom(pg)), dom_tree |-> Some(ExtractedDom(pg)),
          trace |-> <<Cmd("extract_dom", "", TRUE),
                      [cmd |-> "get_dom", ok |-> TRUE, ret |-> Some(ExtractedDom(pg))]>>]
    ELSE [ret |-> Err(SessionError("extract_dom")), dom_tree |-> dt,
          trace |-> <<Cmd("extract_dom", "", FALSE),
                      [cmd |-> "get_dom", ok |-> FALSE, ret |-> None]>>]

\* ToolContext::get_dom: ret is the Result it returns, dom_tree the field
\* after the call, trace the extraction it issued followed by its own return
\* get_dom remembering a failed extraction as an empty document
get_dom_failure_cached(dt, pg, o) ==
    IF dt = None
    THEN IF o["extract_dom"]
         THEN [ret |-> Ok(ExtractedDom(pg)), dom_tree |-> Some(ExtractedDom(pg)),
               trace |-> <<Cmd("extract_dom", "", TRUE),
                           [cmd |-> "get_dom", ok |-> TRUE, ret |-> Some(ExtractedDom(pg))]>>]
         ELSE [ret |-> Err(SessionError("extract_dom")), dom_tree |-> Some(BlankDom),
               trace |-> <<Cmd("extract_dom", "", FALSE),
                           [cmd |-> "get_dom", ok |-> FALSE, ret |-> None]>>]
    ELSE [ret |-> Ok(dt.v), dom_tree |-> dt,
          trace |-> <<[cmd |-> "get_dom", ok |-> TRUE, ret |-> Some(dt.v)]>>]

\* get_dom extracting a second time when the first extraction failed
get_dom_retrying(dt, pg, o) ==
    IF dt = None
    THEN IF o["extract_dom"]
         THEN [ret |-> Ok(ExtractedDom(pg)), dom_tree |-> Some(ExtractedDom(pg)),
               trace |-> <<Cmd("extract_dom", "", TRUE),
                           [cmd |-> "get_dom", ok |-> TRUE, ret |-> Some(ExtractedDom(pg))]>>]
         ELSE [ret |-> Err(SessionError("extract_dom")), dom_tree |-> dt,
               trace |-> <<Cmd("extract_dom", "", FALSE), Cmd("extract_dom", "", FALSE),
                           [cmd |-> "get_dom", ok |-> FALSE, ret |-> None]>>]
    ELSE [ret |-> Ok(dt.v), dom_tree |-> dt,
          trace |-> <<[cmd |-> "get_dom", ok |-> TRUE, ret |-> Some(dt.v)]>>]

get_dom(dt, pg, o) ==
    IF dt = None
    THEN IF o["extract_dom"]
         THEN [ret |-> Ok(ExtractedDom(pg)), dom_tree |-> Some(ExtractedDom(pg)),
               trace |-> <<Cmd("extract_dom", "", TRUE),
                           [cmd |-> "get_dom", ok |-> TRUE, ret |-> Some(ExtractedDom(pg))]>>]
         ELSE [ret |-> Err(SessionError("extract_dom")), dom_tree |-> dt,
               trace |-> <<Cmd("extract_dom", "", FALSE),
                           [cmd |-> "get_dom", ok |-> FALSE, ret |-> None]>>]
    ELSE [ret |-> Ok(dt.v), dom_tree |-> dt,
          trace |-> <<[cmd |-> "get_dom", ok |-> TRUE, ret |-> Some(dt.v)]>>]

(***************************************************************************)
(* Parameter deserialization (serde_json::from_value)                      *)
(***************************************************************************)
\* navigate.rs default_wait
\* an absent wait_for_load read as false
default_wait_false == FALSE

default_wait == TRUE

\* NavigateParams with url defaulted to the empty string when it is absent
ParseNavigate_url_defaulted(params) ==
    IF params.t # "object" THEN Err("invalid type")
    ELSE LET m == params.o IN
         IF Has(m, "url") /\ ~IsStr(m["url"]) THEN Err("invalid type")
         ELSE IF Has(m, "wait_for_load") /\ ~IsBool(m["wait_for_load"])
              THEN Err("invalid type")
         ELSE Ok([url |-> IF Has(m, "url") THEN m["url"].s ELSE "",
                  wait_for_load |-> IF Has(m, "wait_for_load")
                                    THEN m["wait_for_load"].b
                                    ELSE default_wait])

\* #[derive(Deserialize)] struct NavigateParams { url, wait_for_load }
ParseNavigate(params) ==
    IF params.t # "object" THEN Err("invalid type")
    ELSE LET m == params.o IN
         IF ~Has(m, "url") THEN Err("missing field url")
         ELSE IF ~IsStr(m["url"]) THEN Err("invalid type")
         ELSE IF Has(m, "wait_for_load") /\ ~IsBool(m["wait_for_load"])
              THEN Err("invalid type")
         ELSE Ok([url |-> m["url"].s,
                  wait_for_load |-> IF Has(m, "wait_for_load")
                                    THEN m["wait_for_load"].b
                                    ELSE default_wait])

\* ElementSelector with the Index variant tried before the Css variant
ParseElementSelector_index_first(m) ==
    IF Has(m, "index") /\ IsUnsigned(m["index"])
    THEN Ok([variant |-> "Index", index |-> m["index"].n])
    ELSE IF Has(m, "selector") /\ IsStr(m["selector"])
    THEN Ok([variant |-> "Css", selector |-> m["selector"].s])
    ELSE Err("data did not match any variant of untagged enum ElementSelector")

\* ElementSelector falling back to index 0 when no variant fits
ParseElementSelector_index_defaulted(m) ==
    IF Has(m, "selector") /\ IsStr(m["selector"])
    THEN Ok([variant |-> "Css", selector |-> m["selector"].s])
    ELSE IF Has(m, "index") /\ IsUnsigned(m["index"])
    THEN Ok([variant |-> "Index", index |-> m["index"].n])
    ELSE Ok([variant |-> "Index", index |-> 0])

\* #[serde(untagged)] enum ElementSelector { Css { selector }, Index { index } }:
\* the variants are tried in declaration order, the first that fits wins
ParseElementSelector(m) ==
    IF Has(m, "selector") /\ IsStr(m["selector"])
    THEN Ok([variant |-> "Css", selector |-> m["selector"].s])
    ELSE IF Has(m, "index") /\ IsUnsigned(m["index"])
    THEN Ok([variant |-> "Index", index |-> m["index"].n])
    ELSE Err("data did not match any variant of untagged enum ElementSelector")

\* struct ClickParams { #[serde(flatten)] selector: ElementSelector }
ParseClick(params) ==
    IF params.t # "object" THEN Err("invalid type")
    ELSE LET sel == ParseElementSelector(params.o) IN
         IF ~sel.ok THEN Err(sel.err) ELSE Ok([selector |-> sel.v])

(***************************************************************************)
(* navigate                                                                *)
(***************************************************************************)
NavigateExecute(params, dt, pg, o) ==
    LET p == ParseNavigate(params) IN
    IF ~p.ok
    THEN Done(Err(InvalidArgument(<<"Invalid navigate parameters: ", p.err>>)), <<>>, dt, pg)
    ELSE
    LET url == p.v.url
        t1 == <<Cmd("navigate", url, o["navigate"])>>
    IN
    IF ~o["navigate"] THEN Done(Err(SessionError("navigate")), t1, dt, pg)
    ELSE
    LET t2 == IF p.v.wait_for_load
              THEN Append(t1, Cmd("wait_for_navigation", "", o["wait_for_navigation"]))
              ELSE t1
        payload == JObj([url |-> JStr(url), waited |-> JBool(p.v.wait_for_load)])
    IN
    IF p.v.wait_for_load /\ ~o["wait_for_navigation"]
    THEN Done(Err(SessionError("wait_for_navigation")), t2, dt, url)
    ELSE Done(Ok(success_with(payload)), t2, dt, url)

(***************************************************************************)
(* click                                                                   *)
(***************************************************************************)
\* the closure of input.rs pasted into click.rs, tool name and all
ClickMapErr_pasted(e) == ToolExecutionFailed("input", to_string(e))

\* the closure handed to map_err on element.click()
ClickMapErr(e) == ToolExecutionFailed("click", to_string(e))

\* the index resolved with a fallback to an empty selector instead of an error
ResolveIndex_or_default(dom, index) ==
    IF get_selector(dom, index).some
    THEN Ok(get_selector(dom, index).v)
    ELSE Ok([css_selector |-> ""])

\* dom.get_selector(index).ok_or_else(|| ElementNotFound(..)), as click, hover
\* and select each write it
ResolveIndex(dom, index) ==
    IF get_selector(dom, index).some
    THEN Ok(get_selector(dom, index).v)
    ELSE Err(ElementNotFound(index))

ClickExecute(params, dt, pg, o) ==
    LET p == ParseClick(params) IN
    IF ~p.ok
    THEN Done(Err(InvalidArgument(<<"Invalid click parameters: ", p.err>>)), <<>>, dt, pg)
    ELSE IF p.v.selector.variant = "Css" THEN
        LET selector == p.v.selector.selector
            t1 == <<Cmd("find_element", selector, o["find_element"])>>
            t2 == Append(t1, Cmd("click", selector, o["click"]))
        IN
        IF ~o["find_element"] THEN Done(Err(SessionError("find_element")), t1, dt, pg)
        ELSE IF ~o["click"]
        THEN Done(Err(ClickMapErr(RawError("click"))), t2, dt, pg)
        ELSE Done(Ok(success_with(JObj([selector |-> JStr(selector),
                                        method |-> JStr("css")]))), t2, dt, pg)
    ELSE
        LET index == p.v.selector.index
            g == get_dom(dt, pg, o)
        IN
        IF ~g.ret.ok THEN Done(Err(g.ret.err), g.trace, g.dom_tree, pg)
        ELSE
        LET selector_info == ResolveIndex(g.ret.v, index)
            t0 == Append(g.trace, [cmd |-> "get_selector", index |-> index,
                                   ok |-> selector_info.ok])
        IN
        IF ~selector_info.ok
        THEN Done(Err(selector_info.err), t0, g.dom_tree, pg)
        ELSE
        LET css_selector == selector_info.v.css_selector
            t1 == Append(t0, Cmd("find_element", css_selector, o["find_element"]))
            t2 == Append(t1, Cmd("click", css_selector, o["click"]))
        IN
        IF ~o["find_element"]
        THEN Done(Err(SessionError("find_element")), t1, g.dom_tree, pg)
        ELSE IF ~o["click"]
        THEN Done(Err(ClickMapErr(RawError("click"))), t2, g.dom_tree, pg)
        ELSE Done(Ok(success_with(JObj([index |-> JNum(index),
                                        selector |-> JStr(css_selector),
                                        method |-> JStr("index")]))), t2, g.dom_tree, pg)

(***************************************************************************)
(* input                                                                   *)
(***************************************************************************)
\* struct InputParams { selector, text, #[serde(default)] clear }
ParseInput(params) ==
    IF params.t # "object" THEN Err("invalid type")
    ELSE LET m == params.o IN
         IF ~Has(m, "selector") THEN Err("missing field selector")
         ELSE IF ~IsStr(m["selector"]) THEN Err("invalid type")
         ELSE IF ~Has(m, "text") THEN Err("missing field text")
         ELSE IF ~IsStr(m["text"]) THEN Err("invalid type")
         ELSE IF Has(m, "clear") /\ ~IsBool(m["clear"]) THEN Err("invalid type")
         ELSE Ok([selector |-> m["selector"].s, text |-> m["text"].s,
                  clear |-> IF Has(m, "clear") THEN m["clear"].b ELSE FALSE])

\* the Backspace presses issued on top of text.len()
ClearExtra == 100

\* type_into's error handed on as it came
InputMapErr_raw(e) == e

\* the closure handed to map_err on element.type_into()
InputMapErr(e) == ToolExecutionFailed("input", to_string(e))

InputExecute(params, dt, pg, o) ==
    LET p == ParseInput(params) IN
    IF ~p.ok THEN Done(Err(InvalidArgument(<<p.err>>)), <<>>, dt, pg)
    ELSE
    LET selector == p.v.selector
        t1 == <<Cmd("find_element", selector, o["find_element"])>>
        \* element.click().ok(), press_key("End").ok(), the Backspace loop
        clearing == <<Cmd("click", selector, o["click"]),
                      Cmd("press_key", "End", o["press_key"])>>
                    \o [i \in 1..(Len(p.v.text) + ClearExtra) |->
                            Cmd("press_key", "Backspace", o["press_key"])]
        t2 == IF p.v.clear THEN t1 \o clearing ELSE t1
        t3 == Append(t2, Cmd("type_into", p.v.text, o["type_into"]))
    IN
    IF ~o["find_element"] THEN Done(Err(SessionError("find_element")), t1, dt, pg)
    ELSE IF ~o["type_into"]
    THEN Done(Err(InputMapErr(RawError("type_into"))), t3, dt, pg)
    ELSE Done(Ok(success_with(JObj([selector |-> JStr(selector),
                                    text_length |-> JNum(Len(p.v.text))]))), t3, dt, pg)

(***************************************************************************)
(* wait                                                                    *)
(***************************************************************************)
\* wait.rs default_timeout
default_timeout == 30000

\* struct WaitParams { selector, timeout_ms }
ParseWait(params) ==
    IF params.t # "object" THEN Err("invalid type")
    ELSE LET m == params.o IN
         IF ~Has(m, "selector") THEN Err("missing field selector")
         ELSE IF ~IsStr(m["selector"]) THEN Err("invalid type")
         ELSE IF Has(m, "timeout_ms") /\ ~IsUnsigned(m["timeout_ms"])
              THEN Err("invalid type")
         ELSE Ok([selector |-> m["selector"].s,
                  timeout_ms |-> IF Has(m, "timeout_ms")
                                 THEN m["timeout_ms"].n
                                 ELSE default_timeout])

\* elapsed is start.elapsed().as_millis() as read after the wait
WaitExecute(params, dt, pg, o, elapsed) ==
    LET p == ParseWait(params) IN
    IF ~p.ok THEN Done(Err(InvalidArgument(<<p.err>>)), <<>>, dt, pg)
    ELSE
    LET t1 == <<[cmd |-> "wait_for_element", arg |-> p.v.selector,
                 timeout_ms |-> p.v.timeout_ms, ok |-> o["wait_for_element"]]>>
    IN
    IF ~o["wait_for_element"] THEN Done(Err(Timeout(p.v.selector)), t1, dt, pg)
    ELSE Done(Ok(success_with(JObj([selector |-> JStr(p.v.selector),
                                    found |-> JBool(TRUE),
                                    elapsed_ms |-> JNum(elapsed)]))), t1, dt, pg)

(***************************************************************************)
(* evaluate                                                                *)
(***************************************************************************)
\* struct EvaluateParams { code, #[serde(default)] await_promise }
ParseEvaluate(params) ==
    IF params.t # "object" THEN Err("invalid type")
    ELSE LET m == params.o IN
         IF ~Has(m, "code") THEN Err("missing field code")
         ELSE IF ~IsStr(m["code"]) THEN Err("invalid type")
         ELSE IF Has(m, "await_promise") /\ ~IsBool(m["await_promise"])
              THEN Err("invalid type")
         ELSE Ok([code |-> m["code"].s,
                  await_promise |-> IF Has(m, "await_promise")
                                    THEN m["await_promise"].b
                                    ELSE FALSE])

\* Option::unwrap_or
unwrap_or(opt, default) == IF opt.some THEN opt.v ELSE default

\* value is the RemoteObject.value the script evaluation hands back
EvaluateExecute(params, dt, pg, o, value) ==
    LET p == ParseEvaluate(params) IN
    IF ~p.ok THEN Done(Err(InvalidArgument(<<p.err>>)), <<>>, dt, pg)
    ELSE
    LET t1 == <<[cmd |-> "evaluate", script |-> p.v.code,
                 await_promise |-> p.v.await_promise, ok |-> o["evaluate"]]>>
    IN
    IF ~o["evaluate"] THEN Done(Err(EvaluationFailed(to_string(RawError("evaluate")))), t1, dt, pg)
    ELSE Done(Ok(success_with(JObj([result |-> unwrap_or(value, JNull)]))), t1, dt, pg)

(***************************************************************************)
(* screenshot                                                              *)
(***************************************************************************)
\* struct ScreenshotParams { path, #[serde(default)] full_page }
ParseScreenshot(params) ==
    IF params.t # "object" THEN Err("invalid type")
    ELSE LET m == params.o IN
         IF ~Has(m, "path") THEN Err("missing field path")
         ELSE IF ~IsStr(m["path"]) THEN Err("invalid type")
         ELSE IF Has(m, "full_page") /\ ~IsBool(m["full_page"])
              THEN Err("invalid type")
         ELSE Ok([path |-> m["path"].s,
                  full_page |-> IF Has(m, "full_page")
                                THEN m["full_page"].b
                                ELSE FALSE])

\* size is the length of the captured image
ScreenshotExecute(params, dt, pg, o, size) ==
    LET p == ParseScreenshot(params) IN
    IF ~p.ok THEN Done(Err(InvalidArgument(<<p.err>>)), <<>>, dt, pg)
    ELSE
    LET t1 == <<[cmd |-> "capture_screenshot", full_page |-> p.v.full_page,
                 ok |-> o["capture_screenshot"]]>>
        t2 == Append(t1, Cmd("fs_write", p.v.path, o["fs_write"]))
    IN
    IF ~o["capture_screenshot"]
    THEN Done(Err(ScreenshotFailed(to_string(RawError("capture_screenshot")))), t1, dt, pg)
    ELSE IF ~o["fs_write"]
    THEN Done(Err(ScreenshotFailed("Failed to save screenshot")), t2, dt, pg)
    ELSE Done(Ok(success_with(JObj([path |-> JStr(p.v.path),
                                    size_bytes |-> JNum(size),
                                    full_page |-> JBool(p.v.full_page)]))), t2, dt, pg)

(***************************************************************************)
(* JSON helpers used on a script's result                                  *)
(***************************************************************************)
\* the text of a JSON string value: either the serialization of a value,
\* or text that is no JSON at all
JsonText(j) == [parses |-> TRUE, json |-> j]
Garbage == [parses |-> FALSE]

\* serde_json::from_str
from_str(text) == IF text.parses THEN Ok(text.json) ELSE Err("syntax")

\* Result::unwrap_or
result_unwrap_or(r, default) == IF r.ok THEN r.v ELSE default

\* Value's Index<&str>: Null unless an object holding the key
JIndex(j, key) ==
    IF j.t = "object" /\ key \in DOMAIN j.o THEN j.o[key] ELSE JNull

as_bool(j) == IF j.t = "bool" THEN Some(j.b) ELSE None
as_str(j) == IF j.t = "string" THEN Some(j.s) ELSE None

\* a result that cannot be read taken for a success
ScriptResultJson_trusting(value) ==
    IF value.some /\ value.v.t = "string"
    THEN result_unwrap_or(from_str(value.v.s), JObj([success |-> JBool(TRUE)]))
    ELSE unwrap_or(value, JObj([success |-> JBool(TRUE)]))

\* the value hover and select go on with, given RemoteObject.value
ScriptResultJson(value) ==
    IF value.some /\ value.v.t = "string"
    THEN result_unwrap_or(from_str(value.v.s),
                          JObj([success |-> JBool(FALSE),
                                error |-> JStr("Failed to parse result")]))
    ELSE unwrap_or(value, JObj([success |-> JBool(FALSE),
                                error |-> JStr("No result returned")]))

(***************************************************************************)
(* hover                                                                   *)
(***************************************************************************)
\* params is a HoverParams: [selector |-> an ElementSelector]
HoverExecuteTyped(params, dt, pg, o, value) ==
    LET isCss == params.selector.variant = "Css"
        g == IF isCss THEN [ret |-> Ok(0), dom_tree |-> dt, trace |-> <<>>]
             ELSE get_dom(dt, pg, o)
    IN
    IF ~g.ret.ok THEN Done(Err(g.ret.err), g.trace, g.dom_tree, pg)
    ELSE
    LET selector_info == IF isCss THEN Ok(0)
                         ELSE ResolveIndex(g.ret.v, params.selector.index)
        t0 == IF isCss THEN g.trace
              ELSE Append(g.trace, [cmd |-> "get_selector",
                                    index |-> params.selector.index,
                                    ok |-> selector_info.ok])
    IN
    IF ~selector_info.ok
    THEN Done(Err(selector_info.err), t0, g.dom_tree, pg)
    ELSE
    LET css_selector == IF isCss THEN params.selector.selector
                        ELSE selector_info.v.css_selector
        t1 == Append(t0, [cmd |-> "evaluate", script |-> "hover.js",
                          arg |-> css_selector, await_promise |-> FALSE,
                          ok |-> o["evaluate"],
                          returned |-> IF o["evaluate"] THEN value ELSE None])
        result_json == ScriptResultJson(value)
    IN
    IF ~o["evaluate"]
    THEN Done(Err(ToolExecutionFailed("hover", to_string(RawError("evaluate")))), t1, g.dom_tree, pg)
    ELSE IF as_bool(JIndex(result_json, "success")) = Some(TRUE)
    THEN Done(Ok(success_with(JObj(
                [selector |-> JStr(css_selector),
                 element |-> JObj([tagName |-> JIndex(result_json, "tagName"),
                                   id |-> JIndex(result_json, "id"),
                                   className |-> JIndex(result_json, "className")])]))),
              t1, g.dom_tree, pg)
    ELSE Done(Err(ToolExecutionFailed("hover",
                    unwrap_or(as_str(JIndex(result_json, "error")), "Unknown error"))),
              t1, g.dom_tree, pg)

(***************************************************************************)
(* select                                                                  *)
(***************************************************************************)
\* params is a SelectParams: [selector |-> an ElementSelector, value |-> text]
SelectExecuteTyped(params, dt, pg, o, value) ==
    LET isCss == params.selector.variant = "Css"
        g == IF isCss THEN [ret |-> Ok(0), dom_tree |-> dt, trace |-> <<>>]
             ELSE get_dom(dt, pg, o)
    IN
    IF ~g.ret.ok THEN Done(Err(g.ret.err), g.trace, g.dom_tree, pg)
    ELSE
    LET selector_info == IF isCss THEN Ok(0)
                         ELSE ResolveIndex(g.ret.v, params.selector.index)
        t0 == IF isCss THEN g.trace
              ELSE Append(g.trace, [cmd |-> "get_selector",
                                    index |-> params.selector.index,
                                    ok |-> selector_info.ok])
    IN
    IF ~selector_info.ok
    THEN Done(Err(selector_info.err), t0, g.dom_tree, pg)
    ELSE
    LET css_selector == IF isCss THEN params.selector.selector
                        ELSE selector_info.v.css_selector
        t1 == Append(t0, [cmd |-> "evaluate", script |-> "select.js",
                          arg |-> css_selector, value |-> params.value,
                          await_promise |-> FALSE, ok |-> o["evaluate"],
                          returned |-> IF o["evaluate"] THEN value ELSE None])
        result_json == ScriptResultJson(value)
    IN
    IF ~o["evaluate"]
    THEN Done(Err(ToolExecutionFailed("select", to_string(RawError("evaluate")))), t1, g.dom_tree, pg)
    ELSE IF as_bool(JIndex(result_json, "success")) = Some(TRUE)
    THEN Done(Ok(success_with(JObj(
                [selector |-> JStr(css_selector),
                 value |-> JStr(params.value),
                 selectedText |-> JIndex(result_json, "selectedText")]))),
              t1, g.dom_tree, pg)
    ELSE Done(Err(ToolExecutionFailed("select",
                    unwrap_or(as_str(JIndex(result_json, "error")), "Unknown error"))),
              t1, g.dom_tree, pg)

(***************************************************************************)
(* The snapshot renderer (snapshot.rs)                                     *)
(***************************************************************************)
Whitespace == {" ", "\t", "\n"}

RECURSIVE trim_start(_)
trim_start(s) ==
    IF Len(s) > 0 /\ SubSeq(s, 1, 1) \in Whitespace
    THEN trim_start(SubSeq(s, 2, Len(s)))
    ELSE s

RECURSIVE trim_end(_)
trim_end(s) ==
    IF Len(s) > 0 /\ SubSeq(s, Len(s), Len(s)) \in Whitespace
    THEN trim_end(SubSeq(s, 1, Len(s) - 1))
    ELSE s

\* str::trim
trim(s) == trim_end(trim_start(s))

\* str::repeat
RECURSIVE repeat(_, _)
repeat(s, n) ==
    IF n = 0 THEN ""
    ELSE LET half == repeat(s, n \div 2)
         IN IF n % 2 = 1 THEN half \o half \o s ELSE half \o half

\* usize::saturating_sub
saturating_sub(a, b) == IF a > b THEN a - b ELSE 0

\* Text is held as its UTF-8 bytes, one symbol per byte: Len is str::len and
\* SubSeq is a byte slice.  This symbol stands for a continuation byte (a byte
\* that is not the first of its character); every other symbol starts a
\* character.
ContinuationByte == "~"

\* str::is_char_boundary
is_char_boundary(s, k) ==
    \/ k = 0
    \/ k = Len(s)
    \/ k < Len(s) /\ SubSeq(s, k + 1, k + 1) # ContinuationByte

\* &s[..k] panics unless k is a char boundary of s
SlicePanics(s, k) == ~is_char_boundary(s, k)

\* what a tool call leaves behind when the thread panics inside it
Panicked == Err([kind |-> "panic"])

\* get_text_content's threshold and the length it cuts to
SnapshotTextMax == 200
SnapshotTextKeep == 197

get_text_content(n) ==
    IF n.text_content.some
    THEN LET trimmed == trim(n.text_content.v) IN
         IF Len(trimmed) > SnapshotTextMax
         THEN SubSeq(trimmed, 1, SnapshotTextKeep) \o "..."
         ELSE trimmed
    ELSE ""

\* whether get_text_content panics on n: the slice &trimmed[..197]
get_text_content_panics(n) ==
    /\ n.text_content.some
    /\ Len(trim(n.text_content.v)) > SnapshotTextMax
    /\ SlicePanics(trim(n.text_content.v), SnapshotTextKeep)

\* the length under which a parent's text counts as its direct text
DirectTextMax == 100

\* get_direct_text_content giving the text whatever the children are
get_direct_text_content_regardless(n) == get_text_content(n)

get_direct_text_content(n) ==
    IF n.children = <<>>
    THEN get_text_content(n)
    ELSE IF n.text_content.some
            /\ LET trimmed == trim(n.text_content.v) IN
                /\ trimmed # ""
                /\ Len(trimmed) < DirectTextMax
                /\ ~\E i \in 1..Len(n.children) : n.children[i].is_visible
         THEN trim(n.text_content.v)
         ELSE ""

\* append_with_index pushing the content alone, index or not
append_with_index_unmarked(n, content) == content \o "\n"

\* append_with_index: what it pushes onto the output
append_with_index(n, content) ==
    IF n.index.some
    THEN "[" \o ToString(n.index.v) \o "] " \o content \o "\n"
    ELSE content \o "\n"

\* the visibility test skipping only from the second level down
SkipInvisible_below_children(n, depth) == ~n.is_visible /\ depth > 1

\* the visibility test without its depth clause
SkipInvisible_at_any_depth(n, depth) == ~n.is_visible

\* the "skip invisible elements" test at the head of generate_snapshot
SkipInvisible(n, depth) == ~n.is_visible /\ depth > 0

Headings == {"h1", "h2", "h3", "h4", "h5", "h6"}
BlockContainers ==
    {"p", "div", "span", "section", "article", "main", "header", "footer", "nav"}
PureContainers ==
    {"body", "ul", "ol", "form", "fieldset", "table", "tbody", "thead", "tr"}

\* stands for the bullet U+2022 the li branch writes
Bullet == "*"

\* " placeholder=\"P\"" when the attribute is present, else nothing
PlaceholderClause(n) ==
    IF get_attribute(n, "placeholder").some
    THEN " placeholder=\"" \o get_attribute(n, "placeholder").v \o "\""
    ELSE ""

\* a link that always shows its text alone
LinkLine_text_only(n) ==
    append_with_index(n, get_text_content(n))

\* the "a" arm: text and target, text alone, or the target as a placeholder
LinkLine(n) ==
    LET text == get_text_content(n)
        href == unwrap_or(get_attribute(n, "href"), "")
    IN IF text # ""
       THEN IF href # ""
            THEN append_with_index(n, text \o " (" \o href \o ")")
            ELSE append_with_index(n, text)
       ELSE append_with_index(n, "<link " \o href \o ">")

\* the line(s) the match arm of n's tag appends before any child is visited
OwnOutput(n, depth) ==
    LET tag == n.tag_name IN
    CASE tag \in Headings ->
            append_with_index(n,
                repeat("#", CHOOSE k \in 1..6 : tag = "h" \o ToString(k))
                \o " " \o get_text_content(n))
      [] tag = "button" ->
            IF get_text_content(n) # ""
            THEN append_with_index(n, get_text_content(n))
            ELSE append_with_index(n, "<button>")
      [] tag = "a" -> LinkLine(n)
      [] tag = "input" ->
            append_with_index(n,
                "<input type=\"" \o unwrap_or(get_attribute(n, "type"), "text")
                \o "\"" \o PlaceholderClause(n) \o ">,")
      [] tag = "textarea" ->
            append_with_index(n, "<textarea" \o PlaceholderClause(n) \o ">")
      [] tag = "select" -> append_with_index(n, "<select>")
      [] tag = "label" ->
            IF get_text_content(n) # ""
            THEN append_with_index(n, get_text_content(n))
            ELSE ""
      [] tag \in BlockContainers ->
            IF get_direct_text_content(n) # ""
            THEN append_with_index(n, get_direct_text_content(n))
            ELSE ""
      [] tag = "li" ->
            LET text == get_direct_text_content(n)
                indent == repeat("  ", saturating_sub(depth, 1))
            IN append_with_index(n, indent \o Bullet \o " " \o text)
      [] tag \in PureContainers -> ""
      [] OTHER ->
            IF n.is_interactive
            THEN IF get_text_content(n) # ""
                 THEN append_with_index(n, get_text_content(n))
                 ELSE append_with_index(n, "<" \o tag \o ">")
            ELSE IF get_direct_text_content(n) # ""
                 THEN get_direct_text_content(n) \o "\n"
                 ELSE ""

\* the tags whose arm calls get_text_content, and those whose arm calls
\* get_direct_text_content (which calls get_text_content on a childless node)
OwnPanics(n) ==
    LET tag == n.tag_name IN
    IF tag \in Headings \cup {"button", "a", "label"} THEN get_text_content_panics(n)
    ELSE IF tag \in {"input", "textarea", "select"} \cup PureContainers THEN FALSE
    ELSE IF tag \in BlockContainers \cup {"li"}
    THEN n.children = <<>> /\ get_text_content_panics(n)
    ELSE IF n.is_interactive THEN get_text_content_panics(n)
    ELSE n.children = <<>> /\ get_text_content_panics(n)

\* every arm going on to the children
VisitsChildren_always(n) == TRUE

\* whether generate_snapshot goes on to n's children: every arm does, except
\* the default arm on an interactive element, which returns after its line
VisitsChildren(n) ==
    ~(/\ n.tag_name \notin Headings \cup BlockContainers \cup PureContainers
                        \cup {"button", "a", "input", "textarea", "select", "label", "li"}
      /\ n.is_interactive)

RECURSIVE generate_snapshot(_, _)
RECURSIVE ChildrenOutput(_, _, _)

\* the for loop over node.children, from child i on
ChildrenOutput(kids, depth, i) ==
    IF i > Len(kids) THEN ""
    ELSE generate_snapshot(kids[i], depth + 1) \o ChildrenOutput(kids, depth, i + 1)

generate_snapshot(n, depth) ==
    IF SkipInvisible(n, depth) THEN ""
    ELSE IF VisitsChildren(n)
         THEN OwnOutput(n, depth) \o ChildrenOutput(n.children, depth, 1)
         ELSE OwnOutput(n, depth)

RECURSIVE generate_snapshot_panics(_, _)
\* whether generate_snapshot(n, depth) panics instead of returning
generate_snapshot_panics(n, depth) ==
    /\ ~SkipInvisible(n, depth)
    /\ \/ OwnPanics(n)
       \/ /\ VisitsChildren(n)
          /\ \E i \in DOMAIN n.children :
                generate_snapshot_panics(n.children[i], depth + 1)

(***************************************************************************)
(* DomTree queries the listing tools use                                   *)
(***************************************************************************)
RECURSIVE CountInteractiveNode(_)
RECURSIVE CountInteractiveKids(_, _)
CountInteractiveKids(kids, i) ==
    IF i > Len(kids) THEN 0
    ELSE CountInteractiveNode(kids[i]) + CountInteractiveKids(kids, i + 1)

CountInteractiveNode(n) ==
    (IF n.is_interactive THEN 1 ELSE 0) + CountInteractiveKids(n.children, 1)

\* DomTree::count_interactive
count_interactive(dom) == CountInteractiveNode(dom.root)

\* the keys of a selector map, ascending: indices are handed out 0, 1, 2, ...
\* in traversal order, so this is the order they were inserted in
RECURSIVE SortedKeys(_)
SortedKeys(keys) ==
    IF keys = {} THEN <<>>
    ELSE LET least == CHOOSE k \in keys : \A j \in keys : k <= j
         IN <<least>> \o SortedKeys(keys \ {least})

\* DomTree::interactive_indices
interactive_indices(dom) == SortedKeys(DOMAIN dom.selector_map)

RECURSIVE FindNode(_, _)
RECURSIVE FindInKids(_, _, _)
FindInKids(kids, index, i) ==
    IF i > Len(kids) THEN None
    ELSE IF FindNode(kids[i], index).some THEN FindNode(kids[i], index)
    ELSE FindInKids(kids, index, i + 1)

FindNode(n, index) ==
    IF n.index = Some(index) THEN Some(n) ELSE FindInKids(n.children, index, 1)

\* DomTree::find_node_by_index
find_node_by_index(dom, index) == FindNode(dom.root, index)

(***************************************************************************)
(* snapshot                                                                *)
(***************************************************************************)
SnapshotExecuteTyped(dt, pg, o) ==
    LET g == get_dom(dt, pg, o) IN
    IF ~g.ret.ok THEN Done(Err(g.ret.err), g.trace, g.dom_tree, pg)
    ELSE
    IF generate_snapshot_panics(g.ret.v.root, 0)
    THEN Done(Panicked, g.trace, g.dom_tree, pg)
    ELSE
    LET dom == g.ret.v
        snapshot == generate_snapshot(dom.root, 0)
        interactive_count == count_interactive(dom)
    IN Done(Ok(success_with(JObj([snapshot |-> JStr(snapshot),
                                  interactive_count |-> JNum(interactive_count)]))),
            g.trace, g.dom_tree, pg)

(***************************************************************************)
(* get_clickable_elements                                                  *)
(***************************************************************************)
\* the listing's threshold and the length it cuts to
ClickableTextMax == 100
ClickableTextKeep == 97

\* the text the listing shows for a node
ClickableText(n) ==
    IF n.text_content.some
    THEN LET trimmed == trim(n.text_content.v) IN
         IF Len(trimmed) > ClickableTextMax
         THEN SubSeq(trimmed, 1, ClickableTextKeep) \o "..."
         ELSE trimmed
    ELSE ""

\* whether the listing panics on n: the slice &trimmed[..97]
ClickableTextPanics(n) ==
    /\ n.text_content.some
    /\ Len(trim(n.text_content.v)) > ClickableTextMax
    /\ SlicePanics(trim(n.text_content.v), ClickableTextKeep)

\* an entry that leaves the index out
FormatClickable_unnumbered(index, n) ==
    IF ClickableText(n) = ""
    THEN "<" \o n.tag_name \o ">"
    ELSE "<" \o n.tag_name \o ">" \o ClickableText(n) \o "</" \o n.tag_name \o ">"

\* one formatted entry
FormatClickable(index, n) ==
    IF ClickableText(n) = ""
    THEN "[" \o ToString(index) \o "]<" \o n.tag_name \o ">"
    ELSE "[" \o ToString(index) \o "]<" \o n.tag_name \o ">" \o ClickableText(n)
         \o "</" \o n.tag_name \o ">"

\* the for loop: the entries of the indices from position i on
RECURSIVE FormattedElements(_, _, _)
FormattedElements(dom, indices, i) ==
    IF i > Len(indices) THEN <<>>
    ELSE LET found == find_node_by_index(dom, indices[i]) IN
         (IF found.some THEN <<FormatClickable(indices[i], found.v)>> ELSE <<>>)
         \o FormattedElements(dom, indices, i + 1)

\* whether the for loop panics on one of the indexed nodes
FormattingPanics(dom, indices) ==
    \E i \in DOMAIN indices :
        /\ find_node_by_index(dom, indices[i]).some
        /\ ClickableTextPanics(find_node_by_index(dom, indices[i]).v)

\* [String]::join
RECURSIVE join(_, _)
join(strs, sep) ==
    IF strs = <<>> THEN ""
    ELSE IF Len(strs) = 1 THEN strs[1]
    ELSE strs[1] \o sep \o join(Tail(strs), sep)

\* an empty listing reported as a failure
NoClickableElements_as_failure == failure("No clickable elements")

\* the result returned at once when the tree has no indexed element
NoClickableElements ==
    success_with(JObj([elements |-> JStr(""), count |-> JNum(0)]))

GetClickableElementsExecuteTyped(dt, pg, o) ==
    LET g == get_dom(dt, pg, o) IN
    IF ~g.ret.ok THEN Done(Err(g.ret.err), g.trace, g.dom_tree, pg)
    ELSE
    LET dom == g.ret.v
        indices == interactive_indices(dom)
    IN
    IF indices = <<>>
    THEN Done(Ok(NoClickableElements), g.trace, g.dom_tree, pg)
    ELSE IF FormattingPanics(dom, indices)
    THEN Done(Panicked, g.trace, g.dom_tree, pg)
    ELSE Done(Ok(success_with(JObj(
                [elements |-> JStr(join(FormattedElements(dom, indices, 1), "\n")),
                 count |-> JNum(Len(indices))]))),
              g.trace, g.dom_tree, pg)

(***************************************************************************)
(* ToolRegistry                                                            *)
(***************************************************************************)
\* a registered tool: an instance (Arc) of the tool type of that name
ToolObj(name, inst) == [name |-> name, inst |-> inst]

\* ToolRegistry::new
registry_new == EmptyMap

\* register through entry(name).or_insert(tool): an occupied name keeps its tool
register_or_insert(reg, tool) ==
    [n \in DOMAIN reg \cup {tool.name} |-> IF n \in DOMAIN reg THEN reg[n] ELSE tool]

\* ToolRegistry::register: HashMap::insert under tool.name()
register(reg, tool) ==
    [n \in DOMAIN reg \cup {tool.name} |-> IF n = tool.name THEN tool ELSE reg[n]]

\* the tools with_defaults registers, in its order
DefaultTools ==
    <<ToolObj("navigate", 0), ToolObj("click", 0), ToolObj("input", 0),
      ToolObj("extract", 0), ToolObj("screenshot", 0), ToolObj("evaluate", 0),
      ToolObj("wait", 0)>>

\* register called on each of tools, from position i on
RECURSIVE RegisterAll(_, _, _)
RegisterAll(reg, tools, i) ==
    IF i > Len(tools) THEN reg
    ELSE RegisterAll(register(reg, tools[i]), tools, i + 1)

\* ToolRegistry::with_defaults
with_defaults == RegisterAll(registry_new, DefaultTools, 1)

\* ToolRegistry::get
registry_get(reg, name) == IF name \in DOMAIN reg THEN Some(reg[name]) ELSE None

\* ToolRegistry::has
registry_has(reg, name) == name \in DOMAIN reg

\* ToolRegistry::count
registry_count(reg) == Cardinality(DOMAIN reg)

\* format!("Tool '{}' not found", name), as its pieces
NotFoundMessage(name) == <<"Tool '", name, "' not found">>

\* tool.execute(params, context) for the tool types whose execute takes a Value;
\* x carries the readings the environment supplies (elapsed, value, size)
ToolExecute(tool, params, dt, pg, o, x) ==
    CASE tool.name = "navigate" -> NavigateExecute(params, dt, pg, o)
      [] tool.name = "click" -> ClickExecute(params, dt, pg, o)
      [] tool.name = "input" -> InputExecute(params, dt, pg, o)
      [] tool.name = "wait" -> WaitExecute(params, dt, pg, o, x.elapsed)
      [] tool.name = "evaluate" -> EvaluateExecute(params, dt, pg, o, x.value)
      [] tool.name = "screenshot" -> ScreenshotExecute(params, dt, pg, o, x.size)

\* execute with the miss reported as an Err instead of a failure result
registry_execute_raising(reg, name, params, dt, pg, o, x) ==
    LET found == registry_get(reg, name) IN
    IF found.some
    THEN [invoked |-> found, done |-> ToolExecute(found.v, params, dt, pg, o, x)]
    ELSE [invoked |-> None,
          done |-> Done(Err(ToolExecutionFailed(name, "not found")), <<>>, dt, pg)]

\* ToolRegistry::execute; invoked is the tool object it dispatched to, if any
registry_execute(reg, name, params, dt, pg, o, x) ==
    LET found == registry_get(reg, name) IN
    IF found.some
    THEN [invoked |-> found, done |-> ToolExecute(found.v, params, dt, pg, o, x)]
    ELSE [invoked |-> None,
          done |-> Done(Ok(failure(NotFoundMessage(name))), <<>>, dt, pg)]

(***************************************************************************)
(* Inputs                                                                  *)
(***************************************************************************)
\* an object with the key absent or holding one of vals
Field(key, vals) == {EmptyMap} \cup {key :> v : v \in vals}

Objects2(A, B) == {JObj(a @@ b) : a \in A, b \in B}
Objects3(A, B, C) == {JObj(a @@ b @@ c) : a \in A, b \in B, c \in C}

NavigateInputs ==
    {JNull} \cup
    Objects2(Field("url", {JStr("u1"), JStr("u2"), JNum(1)}),
             Field("wait_for_load", {JBool(TRUE), JBool(FALSE), JStr("yes")}))

ClickInputs ==
    {JNull} \cup
    Objects2(Field("selector", {JStr("#a"), JNum(7)}),
             Field("index", {JNum(0), JNum(1), JNum(5), JNum(-1)}))

InputInputs ==
    {JNull} \cup
    Objects3(Field("selector", {JStr("#q")}),
             Field("text", {JStr("ab"), JNum(5)}),
             Field("clear", {JBool(TRUE), JStr("yes")}))

WaitInputs ==
    {JNull} \cup
    Objects2(Field("selector", {JStr("#a"), JNum(7)}),
             Field("timeout_ms", {JNum(500), JNum(-1)}))

EvaluateInputs ==
    {JNull} \cup
    Objects2(Field("code", {JStr("1+1"), JNum(7)}),
             Field("await_promise", {JBool(TRUE), JStr("yes")}))

ScreenshotInputs ==
    {JNull} \cup
    Objects2(Field("path", {JStr("/tmp/a.png"), JNum(7)}),
             Field("full_page", {JBool(TRUE), JStr("yes")}))

ElementSelectors ==
    {[variant |-> "Css", selector |-> "#a"]}
    \cup {[variant |-> "Index", index |-> i] : i \in {0, 5}}

HoverInputs == {[selector |-> sel] : sel \in ElementSelectors}
SelectInputs == {[selector |-> sel, value |-> "us"] : sel \in ElementSelectors}

\* RemoteObject.value after a script ran
ScriptValues ==
    {None,
     Some(JStr(JsonText(JObj([success |-> JBool(TRUE), tagName |-> JStr("A")])))),
     Some(JStr(JsonText(JObj([success |-> JBool(FALSE), error |-> JStr("Element not found")])))),
     Some(JStr(JsonText(JObj([success |-> JStr("true")])))),
     Some(JStr(Garbage)),
     Some(JObj([success |-> JBool(TRUE)])),
     Some(JNum(2))}

Elapsed == {0, 250}
Sizes == {0, 1024}
NoReadings == [elapsed |-> 0, value |-> None, size |-> 0]

(***************************************************************************)
(* The state machine of one ToolContext                                    *)
(***************************************************************************)
NoCall ==
    [tool |-> "none", requested |-> "", invoked |-> None, params |-> JNull,
     trace |-> <<>>, result |-> Err([kind |-> "NoCall"]), before |-> None]

\* the outcomes of the extract_dom commands among the calls of a trace
RECURSIVE Extractions(_)
Extractions(trace) ==
    IF trace = <<>> THEN <<>>
    ELSE (IF Head(trace).cmd = "extract_dom" THEN <<Head(trace).ok>> ELSE <<>>)
         \o Extractions(Tail(trace))

\* ToolContext::new
ContextNew == [ctor |-> [kind |-> "new", tree |-> None], dom_tree |-> None]

\* with_dom storing nothing in the cache
ContextWithDom_uncached(tree) ==
    [ctor |-> [kind |-> "with_dom", tree |-> Some(tree)], dom_tree |-> None]

\* ToolContext::with_dom
ContextWithDom(tree) ==
    [ctor |-> [kind |-> "with_dom", tree |-> Some(tree)], dom_tree |-> Some(tree)]

Contexts == {ContextNew} \cup {ContextWithDom(t) : t \in DomTrees}

\* the variables the tool machine does not touch
RestInit ==
    /\ tr = success(None)
    /\ node = ElementNode("body", EmptyMap, None, TRUE, FALSE, None, <<>>)
    /\ out = None

Init ==
    /\ registry = registry_new
    /\ registered = <<>>
    /\ \E c \in Contexts : ctor = c.ctor /\ dom_tree = c.dom_tree
    /\ page \in Pages
    /\ extractions = <<>>
    /\ ncalls = 0
    /\ last = NoCall
    /\ RestInit

\* an invocation that fills an empty cache whatever the tool
Invoke_extracting_eagerly(tool, params, done) ==
    /\ ncalls < MaxCalls
    /\ ncalls' = ncalls + 1
    /\ dom_tree' = IF done.dom_tree = None
                    THEN Some(ExtractedDom(done.page))
                    ELSE done.dom_tree
    /\ page' = done.page
    /\ extractions' = extractions \o Extractions(done.trace)
    /\ last' = [tool |-> tool, requested |-> tool, invoked |-> None,
                params |-> params, trace |-> done.trace, result |-> done.result,
                before |-> dom_tree]
    /\ UNCHANGED <<registry, registered, ctor, tr, node, out>>

\* an invocation after which a navigate has emptied the context's cache
Invoke_navigate_clearing(tool, params, done) ==
    /\ ncalls < MaxCalls
    /\ ncalls' = ncalls + 1
    /\ dom_tree' = IF tool = "navigate" THEN None ELSE done.dom_tree
    /\ page' = done.page
    /\ extractions' = extractions \o Extractions(done.trace)
    /\ last' = [tool |-> tool, requested |-> tool, invoked |-> None,
                params |-> params, trace |-> done.trace, result |-> done.result,
                before |-> dom_tree]
    /\ UNCHANGED <<registry, registered, ctor, tr, node, out>>

\* the effect of one direct invocation tool.execute(params, context)
Invoke(tool, params, done) ==
    /\ ncalls < MaxCalls
    /\ ncalls' = ncalls + 1
    /\ dom_tree' = done.dom_tree
    /\ page' = done.page
    /\ extractions' = extractions \o Extractions(done.trace)
    /\ last' = [tool |-> tool, requested |-> tool, invoked |-> None,
                params |-> params, trace |-> done.trace, result |-> done.result,
                before |-> dom_tree]
    /\ UNCHANGED <<registry, registered, ctor, tr, node, out>>

Navigate ==
    \E params \in NavigateInputs, o \in Outcomes(AtMostOneFails({"navigate", "wait_for_navigation"})) :
        Invoke("navigate", params, NavigateExecute(params, dom_tree, page, o))

Click ==
    \E params \in ClickInputs, o \in Outcomes(AtMostOneFails({"extract_dom", "find_element", "click"})) :
        Invoke("click", params, ClickExecute(params, dom_tree, page, o))

Input ==
    \E params \in InputInputs,
       o \in Outcomes(AtMostOneFails({"find_element", "click", "press_key", "type_into"})
                       \cup {{"click", "press_key", "type_into"}}) :
        Invoke("input", params, InputExecute(params, dom_tree, page, o))

Wait ==
    \E params \in WaitInputs, o \in Outcomes(AtMostOneFails({"wait_for_element"})), elapsed \in Elapsed :
        Invoke("wait", params, WaitExecute(params, dom_tree, page, o, elapsed))

Evaluate ==
    \E params \in EvaluateInputs, o \in Outcomes(AtMostOneFails({"evaluate"})),
       value \in {None, Some(JNum(2))} :
        Invoke("evaluate", params, EvaluateExecute(params, dom_tree, page, o, value))

Screenshot ==
    \E params \in ScreenshotInputs, o \in Outcomes(AtMostOneFails({"capture_screenshot", "fs_write"})),
       size \in Sizes :
        Invoke("screenshot", params, ScreenshotExecute(params, dom_tree, page, o, size))

Hover ==
    \E params \in HoverInputs, o \in Outcomes(AtMostOneFails({"extract_dom", "evaluate"})),
       value \in ScriptValues :
        Invoke("hover", params, HoverExecuteTyped(params, dom_tree, page, o, value))

Select ==
    \E params \in SelectInputs, o \in Outcomes(AtMostOneFails({"extract_dom", "evaluate"})),
       value \in ScriptValues :
        Invoke("select", params, SelectExecuteTyped(params, dom_tree, page, o, value))

Snapshot ==
    \E o \in Outcomes(AtMostOneFails({"extract_dom"})) :
        Invoke("snapshot", JObj(EmptyMap), SnapshotExecuteTyped(dom_tree, page, o))

GetClickableElements ==
    \E o \in Outcomes(AtMostOneFails({"extract_dom"})) :
        Invoke("get_clickable_elements", JObj(EmptyMap),
               GetClickableElementsExecuteTyped(dom_tree, page, o))

\* context.get_dom() called by the embedding program itself
GetDom ==
    \E o \in Outcomes(AtMostOneFails({"extract_dom"})) :
        LET g == get_dom(dom_tree, page, o) IN
        Invoke("get_dom", JNull, Done(g.ret, g.trace, g.dom_tree, page))

Next ==
    \/ GetDom
    \/ Navigate
    \/ Click
    \/ Input
    \/ Wait
    \/ Evaluate
    \/ Screenshot
    \/ Hover
    \/ Select
    \/ Snapshot
    \/ GetClickableElements

Spec == Init /\ [][Next]_vars

(***************************************************************************)
(* The state machine of one ToolRegistry                                   *)
(***************************************************************************)
\* the tool instances a caller registers
RegisterInputs == {ToolObj(n, i) : n \in {"navigate", "click"}, i \in {1, 2}}

\* the names a caller dispatches on
DispatchNames ==
    {"navigate", "click", "input", "wait", "evaluate", "screenshot",
     "hover", "does-not-exist"}

DispatchInputs(name) ==
    CASE name = "navigate" -> {JNull, JObj("url" :> JStr("u2"))}
      [] name = "click" -> {JObj("selector" :> JStr("#a")), JObj("index" :> JNum(0))}
      [] name = "input" -> {JObj(("selector" :> JStr("#q")) @@ ("text" :> JStr("ab")))}
      [] name = "wait" -> {JObj("selector" :> JStr("#a"))}
      [] name = "evaluate" -> {JObj("code" :> JStr("1+1"))}
      [] name = "screenshot" -> {JObj("path" :> JStr("/tmp/a.png"))}
      [] OTHER -> {JNull, JObj("selector" :> JStr("#a"))}

\* the register calls made after construction
Registrations(log) == Len(SelectSeq(log, LAMBDA t : t.inst > 0))

InitRegistry ==
    /\ \/ registry = registry_new /\ registered = <<>>
       \/ registry = with_defaults /\ registered = DefaultTools
    /\ ctor = ContextNew.ctor
    /\ dom_tree = ContextNew.dom_tree
    /\ page = "u1"
    /\ extractions = <<>>
    /\ ncalls = 0
    /\ last = NoCall
    /\ RestInit

Register ==
    \E tool \in RegisterInputs :
        /\ Registrations(registered) < MaxRegister
        /\ registry' = register(registry, tool)
        /\ registered' = Append(registered, tool)
        /\ UNCHANGED <<ctor, dom_tree, page, extractions, ncalls, last, tr, node, out>>

Dispatch ==
    \E name \in DispatchNames :
      \E params \in DispatchInputs(name),
         o \in Outcomes(AtMostOneFails({"navigate", "extract_dom", "find_element"})) :
        LET x == [elapsed |-> 250, value |-> Some(JNum(2)), size |-> 1024]
            r == registry_execute(registry, name, params, dom_tree, page, o, x)
        IN
        /\ ncalls < MaxDispatch
        /\ ncalls' = ncalls + 1
        /\ dom_tree' = r.done.dom_tree
        /\ page' = r.done.page
        /\ extractions' = extractions \o Extractions(r.done.trace)
        /\ last' = [tool |-> "dispatch", requested |-> name, invoked |-> r.invoked,
                    params |-> params, trace |-> r.done.trace,
                    result |-> r.done.result, before |-> dom_tree]
        /\ UNCHANGED <<registry, registered, ctor, tr, node, out>>

NextRegistry ==
    \/ Register
    \/ Dispatch

SpecRegistry == InitRegistry /\ [][NextRegistry]_vars

(***************************************************************************)
(* Building a ToolResult                                                   *)
(***************************************************************************)
ResultData == {JObj([url |-> JStr("u1")]), JNum(7)}
ResultErrors == {"Test error", ""}
MetadataKeys == {"duration_ms", "attempt", "source"}
MetadataValues == {JNum(100), JStr("cache")}

\* the variables a ToolResult does not touch
ToolMachineIdle ==
    /\ registry = registry_new
    /\ registered = <<>>
    /\ ctor = ContextNew.ctor
    /\ dom_tree = ContextNew.dom_tree
    /\ page = "about:blank"
    /\ extractions = <<>>
    /\ ncalls = 0
    /\ last = NoCall

InitResult ==
    /\ ToolMachineIdle
    /\ node = ElementNode("body", EmptyMap, None, TRUE, FALSE, None, <<>>)
    /\ out = None
    /\ \/ \E data \in {None} \cup {Some(d) : d \in ResultData} : tr = success(data)
       \/ \E data \in ResultData \cup {Unserializable} : tr = success_with(data)
       \/ \E error \in ResultErrors : tr = failure(error)

WithMetadata ==
    \E key \in MetadataKeys, value \in MetadataValues :
        /\ tr' = with_metadata(tr, key, value)
        /\ last' = [NoCall EXCEPT !.tool = "with_metadata",
                                  !.params = [key |-> key, value |-> value]]
        /\ UNCHANGED <<registry, registered, ctor, dom_tree, page, extractions,
                       ncalls, node, out>>

NextResult == WithMetadata

SpecResult == InitResult /\ [][NextResult]_vars

(***************************************************************************)
(* Rendering a tree                                                        *)
(***************************************************************************)
\* ElementNode::new
ElementNode_new(tag) == ElementNode(tag, EmptyMap, None, FALSE, FALSE, None, <<>>)

\* ElementNode::add_child under the node at path (a sequence of child positions)
RECURSIVE add_child(_, _, _)
add_child(n, path, child) ==
    IF path = <<>>
    THEN [n EXCEPT !.children = Append(@, child)]
    ELSE [n EXCEPT !.children[Head(path)] = add_child(@, Tail(path), child)]

RECURSIVE count_elements(_)
RECURSIVE CountKids(_, _)
CountKids(kids, i) ==
    IF i > Len(kids) THEN 0 ELSE count_elements(kids[i]) + CountKids(kids, i + 1)

\* ElementNode::count_elements
count_elements(n) == 1 + CountKids(n.children, 1)

RECURSIVE CountIndexed(_)
RECURSIVE CountIndexedKids(_, _)
CountIndexedKids(kids, i) ==
    IF i > Len(kids) THEN 0 ELSE CountIndexed(kids[i]) + CountIndexedKids(kids, i + 1)

\* the nodes of a tree that carry an index
CountIndexed(n) == (IF n.index.some THEN 1 ELSE 0) + CountIndexedKids(n.children, 1)

\* a node as a test builds it: new(tag), then the fields set one by one
Built(tag, attrs, text, vis, inter) ==
    [ElementNode_new(tag) EXCEPT !.attributes = attrs, !.text_content = text,
                                 !.is_visible = vis, !.is_interactive = inter]

\* the roots a tree starts from
Roots ==
    {Built("body", EmptyMap, None, vis, FALSE) : vis \in BOOLEAN}
    \cup {Built("div", EmptyMap, Some(" Top "), vis, FALSE) : vis \in BOOLEAN}

\* the nodes added below the root; an interactive one gets the next free index
Prototypes ==
    {Built("h1", EmptyMap, Some("Welcome"), TRUE, FALSE),
     Built("button", EmptyMap, Some("Click me"), TRUE, TRUE),
     Built("button", EmptyMap, None, FALSE, TRUE),
     Built("a", "href" :> "https://example.com", Some("Example Link"), TRUE, TRUE),
     Built("a", "href" :> "/x", Some("  "), TRUE, TRUE),
     Built("a", EmptyMap, Some("Plain"), TRUE, TRUE),
     Built("input", "placeholder" :> "Name", None, TRUE, TRUE),
     Built("textarea", EmptyMap, None, TRUE, TRUE),
     Built("select", EmptyMap, Some("One Two"), TRUE, TRUE),
     Built("label", EmptyMap, Some("Name:"), TRUE, FALSE),
     Built("label", EmptyMap, None, TRUE, TRUE),
     Built("div", EmptyMap, Some("Block text"), TRUE, FALSE),
     Built("div", EmptyMap, Some("Hidden block"), FALSE, FALSE),
     Built("div", EmptyMap, Some(repeat("x", DirectTextMax - 1)), TRUE, FALSE),
     Built("div", EmptyMap, Some(repeat("x", DirectTextMax)), TRUE, FALSE),
     Built("span", EmptyMap, Some("Tab"), TRUE, TRUE),
     Built("li", EmptyMap, Some("Item"), TRUE, FALSE),
     Built("ul", EmptyMap, None, TRUE, FALSE),
     Built("ul", EmptyMap, None, FALSE, FALSE),
     Built("em", EmptyMap, Some("stress"), TRUE, FALSE),
     Built("summary", EmptyMap, Some("More"), TRUE, TRUE)}

\* where a node may be added: under the root or under one of its children
AddPaths(n) == {<<>>} \cup {<<i>> : i \in 1..Len(n.children)}

InitSnapshot ==
    /\ ToolMachineIdle
    /\ tr = success(None)
    /\ node \in Roots
    /\ out = None

AddChild ==
    \E proto \in Prototypes, path \in AddPaths(node) :
        LET child == IF proto.is_interactive
                     THEN [proto EXCEPT !.index = Some(CountIndexed(node))]
                     ELSE proto
        IN
        /\ out = None
        /\ count_elements(node) < MaxNodes
        /\ node' = add_child(node, path, child)
        /\ UNCHANGED <<registry, registered, ctor, dom_tree, page, extractions,
                       ncalls, last, tr, out>>

\* what out holds when the call never returned
NoReturn == [some |-> FALSE, panic |-> TRUE]

GenerateSnapshot ==
    /\ out = None
    /\ out' = IF generate_snapshot_panics(node, 0)
              THEN NoReturn
              ELSE Some(generate_snapshot(node, 0))
    /\ UNCHANGED <<registry, registered, ctor, dom_tree, page, extractions,
                   ncalls, last, tr, node>>

NextSnapshot ==
    \/ AddChild
    \/ GenerateSnapshot

SpecSnapshot == InitSnapshot /\ [][NextSnapshot]_vars

(***************************************************************************)
(* Single elements of every kind, rendered and listed                      *)
(***************************************************************************)
RECURSIVE IndicesOf(_)
\* the indices the nodes of a tree carry
IndicesOf(n) ==
    (IF n.index.some THEN {n.index.v} ELSE {})
    \cup UNION {IndicesOf(n.children[i]) : i \in DOMAIN n.children}

\* DomTree::new: the tree with the selector map of the indices it carries
DomTree_new(root) ==
    DomTree(root, [i \in IndicesOf(root) |-> [css_selector |-> "#e" \o ToString(i)]])

\* texts by byte length, in one-byte characters
AsciiTexts == {repeat("x", k) : k \in {1, 97, 99, 100, 101, 150, 197, 200, 201, 250}}

\* texts holding two-byte characters: 60 of them (120 bytes), 101 of them
\* (202 bytes), and 100 of them after a one-byte character (201 bytes)
WideTexts == {repeat("^~", 60), repeat("^~", 101), "x" \o repeat("^~", 100)}

ElementTexts ==
    {None, Some("  "), Some("Example Link"), Some(" Go ")}
    \cup {Some(t) : t \in AsciiTexts \cup WideTexts}

ElementTags ==
    {"h2", "button", "a", "input", "textarea", "select", "label", "div", "li",
     "ul", "em", "summary"}

ElementAttributes(tag) ==
    IF tag = "a"
    THEN {EmptyMap, "href" :> "", "href" :> "https://example.com"}
    ELSE {EmptyMap}

\* one element as extraction classifies and indexes it: an index only on an
\* interactive element
Elements ==
    {[Built(tag, attrs, text, TRUE, inter) EXCEPT !.index = idx] :
        tag \in ElementTags, attrs \in UNION {ElementAttributes(t) : t \in ElementTags},
        text \in ElementTexts, inter \in BOOLEAN, idx \in {None, Some(5), Some(10)}}

InitText ==
    /\ ToolMachineIdle
    /\ tr = success(None)
    /\ node \in {e \in Elements : /\ e.attributes \in ElementAttributes(e.tag_name)
                                  /\ e.index.some => e.is_interactive}
    /\ out = None

\* get_clickable_elements on a context holding the tree of node
ListClickable ==
    /\ last = NoCall
    /\ LET dom == DomTree_new(node)
           o == [c \in SessionCmds |-> TRUE]
           done == GetClickableElementsExecuteTyped(Some(dom), page, o)
       IN last' = [tool |-> "get_clickable_elements",
                   requested |-> "get_clickable_elements", invoked |-> None,
                   params |-> JObj(EmptyMap), trace |-> done.trace,
                   result |-> done.result, before |-> Some(dom)]
    /\ UNCHANGED <<registry, registered, ctor, dom_tree, page, extractions,
                   ncalls, tr, node, out>>

NextText ==
    \/ GenerateSnapshot
    \/ ListClickable

SpecText == InitText /\ [][NextText]_vars

(***************************************************************************)
(* click, hover and select called once with JSON parameters                *)
(***************************************************************************)
\* struct HoverParams { #[serde(flatten)] selector: ElementSelector }
ParseHover(params) ==
    IF params.t # "object" THEN Err("invalid type")
    ELSE LET sel == ParseElementSelector(params.o) IN
         IF ~sel.ok THEN Err(sel.err) ELSE Ok([selector |-> sel.v])

\* struct SelectParams { #[serde(flatten)] selector: ElementSelector, value }
ParseSelect(params) ==
    IF params.t # "object" THEN Err("invalid type")
    ELSE LET sel == ParseElementSelector(params.o) IN
         IF ~sel.ok THEN Err(sel.err)
         ELSE IF ~Has(params.o, "value") THEN Err("missing field value")
         ELSE IF ~IsStr(params.o["value"]) THEN Err("invalid type")
         ELSE Ok([selector |-> sel.v, value |-> params.o["value"].s])

\* Tool::execute of hover: the parameters are validated, then execute_typed runs
HoverExecute(params, dt, pg, o, value) ==
    LET p == ParseHover(params) IN
    IF ~p.ok THEN Done(Err(InvalidArgument(<<p.err>>)), <<>>, dt, pg)
    ELSE HoverExecuteTyped(p.v, dt, pg, o, value)

\* Tool::execute of select
SelectExecute(params, dt, pg, o, value) ==
    LET p == ParseSelect(params) IN
    IF ~p.ok THEN Done(Err(InvalidArgument(<<p.err>>)), <<>>, dt, pg)
    ELSE SelectExecuteTyped(p.v, dt, pg, o, value)

HoverJsonInputs ==
    {JNull} \cup
    Objects2(Field("selector", {JStr("#a"), JNum(7)}),
             Field("index", {JNum(0), JNum(5), JNum(-1)}))

SelectJsonInputs ==
    Objects3(Field("selector", {JStr("#a"), JNum(7)}),
             Field("index", {JNum(0), JNum(5), JNum(-1)}),
             Field("value", {JStr("us")}))

\* the one call made on the context
ClickOnce ==
    /\ ncalls = 0
    /\ Click

HoverOnce ==
    /\ ncalls = 0
    /\ \E params \in HoverJsonInputs,
          o \in Outcomes(AtMostOneFails({"extract_dom", "evaluate"})),
          value \in ScriptValues :
           Invoke("hover", params, HoverExecute(params, dom_tree, page, o, value))

SelectOnce ==
    /\ ncalls = 0
    /\ \E params \in SelectJsonInputs,
          o \in Outcomes(AtMostOneFails({"extract_dom", "evaluate"})),
          value \in ScriptValues :
           Invoke("select", params, SelectExecute(params, dom_tree, page, o, value))

NextParams ==
    \/ ClickOnce
    \/ HoverOnce
    \/ SelectOnce

SpecParams == Init /\ [][NextParams]_vars

(***************************************************************************)
(* Indexer / SelectorMap builder                                           *)
(***************************************************************************)
\* the node of a tree at a path (a sequence of child positions)
RECURSIVE NodeAt(_, _)
NodeAt(n, path) ==
    IF path = <<>> THEN n ELSE NodeAt(n.children[Head(path)], Tail(path))

\* the tree with the index of the node at a path set
RECURSIVE SetIndexAt(_, _, _)
SetIndexAt(n, path, index) ==
    IF path = <<>>
    THEN [n EXCEPT !.index = Some(index)]
    ELSE [n EXCEPT !.children[Head(path)] = SetIndexAt(@, Tail(path), index)]

RECURSIVE traversal_order(_, _)
RECURSIVE KidsOrder(_, _, _)
RECURSIVE KidsOrder_children_first(_, _, _)
\* the children's subtrees, one after the other, from child i on
KidsOrder(n, path, i) ==
    IF i > Len(n.children) THEN <<>>
    ELSE traversal_order(n.children[i], Append(path, i)) \o KidsOrder(n, path, i + 1)

\* the same, each traversal being children first
KidsOrder_children_first(n, path, i) ==
    IF i > Len(n.children) THEN <<>>
    ELSE KidsOrder_children_first(n.children[i], Append(path, i), 1)
         \o <<Append(path, i)>> \o KidsOrder_children_first(n, path, i + 1)

\* a traversal that visits the children of a node before the node
traversal_order_children_first(n, path) ==
    KidsOrder_children_first(n, path, 1) \o <<path>>

\* depth-first, document order: a node, then its children's subtrees in order
traversal_order(n, path) == <<path>> \o KidsOrder(n, path, 1)

\* the positional path from the root to the node at path
RECURSIVE PositionalPath(_)
PositionalPath(path) ==
    IF path = <<>> THEN ":root"
    ELSE PositionalPath(SubSeq(path, 1, Len(path) - 1))
         \o " > :nth-child(" \o ToString(path[Len(path)]) \o ")"

\* the locator of a node: from its id when it has one, else its positional
\* path; an empty id gives no usable locator
derive_locator(n, path) ==
    IF "id" \in DOMAIN n.attributes
    THEN IF n.attributes["id"] = "" THEN None ELSE Some("#" \o n.attributes["id"])
    ELSE Some(PositionalPath(path))

\* a counter that hands out the same integer again
next_index_stuck(next) == next

\* the integer after the one just assigned
next_index(next) == next + 1

\* the walk: the k-th node of the order on, next being the next free integer;
\* an interactive node with a usable locator takes it and enters the map
RECURSIVE IndexFrom(_, _, _, _, _)
IndexFrom(order, k, next, root, map) ==
    IF k > Len(order) THEN DomTree(root, map)
    ELSE LET path == order[k]
             n == NodeAt(root, path)
             locator == derive_locator(n, path)
         IN IF n.is_interactive /\ locator.some
            THEN IndexFrom(order, k + 1, next_index(next),
                           SetIndexAt(root, path, next),
                           map @@ (next :> [css_selector |-> locator.v]))
            ELSE IndexFrom(order, k + 1, next, root, map)

\* the indexed tree and its SelectorMap, built from a classified tree
build_index(root) == IndexFrom(traversal_order(root, <<>>), 1, 0, root, EmptyMap)

\* the nodes a classified document is made of
ClassifiedNodes ==
    {Built("button", "id" :> "go", Some("Go"), TRUE, TRUE),
     Built("a", EmptyMap, Some("Link"), TRUE, TRUE),
     Built("input", "id" :> "", None, TRUE, TRUE),
     Built("div", EmptyMap, Some("Text"), TRUE, FALSE)}

InitIndexer ==
    /\ ToolMachineIdle
    /\ tr = success(None)
    /\ node = Built("body", EmptyMap, None, TRUE, FALSE)
    /\ out = None

\* the classifier hands over one more node of the document
AddClassified ==
    \E proto \in ClassifiedNodes, path \in AddPaths(node) :
        /\ dom_tree = None
        /\ count_elements(node) < MaxClassified
        /\ node' = add_child(node, path, proto)
        /\ UNCHANGED <<registry, registered, ctor, dom_tree, page, extractions,
                       ncalls, last, tr, out>>

\* the indexer runs once over the classified tree
BuildIndex ==
    /\ dom_tree = None
    /\ dom_tree' = Some(build_index(node))
    /\ UNCHANGED <<registry, registered, ctor, page, extractions, ncalls, last,
                   tr, node, out>>

NextIndexer ==
    \/ AddClassified
    \/ BuildIndex

SpecIndexer == InitIndexer /\ [][NextIndexer]_vars

(***************************************************************************)
(* Properties of the tool context                                          *)
(***************************************************************************)
\* the get_dom returns among the calls of a trace
GetDomEvents(trace) == {i \in DOMAIN trace : trace[i].cmd = "get_dom"}

\* the extract_dom calls that succeeded, by position in the context's history
Succeeded(history) == {i \in DOMAIN history : history[i]}

\* C1 as stated: on a context made by ToolContext::new, once get_dom has been
\* called, exactly one extract_dom call has been issued, however many get_dom
\* calls there were.
C1_ExactlyOneExtraction ==
    (ctor.kind = "new" /\ GetDomEvents(last.trace) # {})
        => Len(extractions) = 1

\* C1, amended: on a context made by ToolContext::new at most one extract_dom
\* call ever succeeds and none is issued after it; the tree is cached exactly
\* when an extraction has succeeded; a get_dom called with a tree cached issues
\* no extract_dom and returns that very tree; a get_dom that extracts returns
\* the tree it caches.  Extractions that failed may precede the successful one.
C1_OneSuccessfulExtraction ==
    ctor.kind = "new" =>
        /\ Cardinality(Succeeded(extractions)) <= 1
        /\ \A i \in Succeeded(extractions) : i = Len(extractions)
        /\ dom_tree.some <=> Succeeded(extractions) # {}
        /\ last.before.some =>
              /\ Extractions(last.trace) = <<>>
              /\ dom_tree = last.before
              /\ \A i \in GetDomEvents(last.trace) : last.trace[i].ret = last.before
        /\ \A i \in GetDomEvents(last.trace) :
              /\ last.trace[i].ok => last.trace[i].ret = dom_tree
              /\ Len(Extractions(SubSeq(last.trace, 1, i))) <= 1
              /\ last.before = None => Len(Extractions(SubSeq(last.trace, 1, i))) = 1

\* a failed extraction, then the successful one, then a get_dom served from
\* the cache
C1_Witness ==
    /\ ctor.kind = "new"
    /\ extractions = <<FALSE, TRUE>>
    /\ ncalls = 3
    /\ last.before.some
    /\ GetDomEvents(last.trace) # {}

(***************************************************************************)
(* Properties of index-based element selection                            *)
(***************************************************************************)
\* the last call was a click, hover or select that names its element by index
IndexBased ==
    \/ /\ last.tool = "click"
       /\ last.params.t = "object"
       /\ ~(Has(last.params.o, "selector") /\ IsStr(last.params.o["selector"]))
       /\ Has(last.params.o, "index") /\ IsUnsigned(last.params.o["index"])
    \/ /\ last.tool \in {"hover", "select"}
       /\ last.params.selector.variant = "Index"

LastIndex ==
    IF last.tool = "click" THEN last.params.o["index"].n
    ELSE last.params.selector.index

\* the element lookups, clicks and script evaluations among the calls of a trace
ElementCommands(trace) ==
    {i \in DOMAIN trace : trace[i].cmd \in {"find_element", "click", "evaluate"}}

\* C2: an index-based click, hover or select issues find_element, click or
\* evaluate only after the index has been looked up in the selector map of the
\* tree get_dom returned, and only with the CSS selector found there; when the
\* map has no entry for the index the call fails with ElementNotFound carrying
\* that index and issues none of those commands.
C2_IndexResolvedFirst ==
    IndexBased =>
        /\ \A j \in ElementCommands(last.trace) :
              /\ dom_tree.some
              /\ LastIndex \in DOMAIN dom_tree.v.selector_map
              /\ last.trace[j].arg = dom_tree.v.selector_map[LastIndex].css_selector
              /\ \E i \in 1..(j - 1) :
                    /\ last.trace[i].cmd = "get_selector"
                    /\ last.trace[i].index = LastIndex
              /\ \E i \in 1..(j - 1) :
                    /\ last.trace[i].cmd = "get_dom"
                    /\ last.trace[i].ret = dom_tree
        /\ (dom_tree.some /\ LastIndex \notin DOMAIN dom_tree.v.selector_map) =>
              /\ last.result = Err(ElementNotFound(LastIndex))
              /\ ElementCommands(last.trace) = {}

\* a click by an index the freshly extracted tree does not map
C2_Witness ==
    /\ IndexBased
    /\ last.tool = "click"
    /\ last.before = None
    /\ dom_tree.some
    /\ dom_tree.v.selector_map # EmptyMap
    /\ LastIndex \notin DOMAIN dom_tree.v.selector_map
    /\ last.result = Err(ElementNotFound(LastIndex))

(***************************************************************************)
(* Properties of parameter validation                                      *)
(***************************************************************************)
\* the tools that deserialize a JSON value themselves
ValueTools == {"navigate", "click", "input", "wait", "evaluate", "screenshot"}

\* the fields of each tool's parameter struct: key, type, and whether the
\* field must be present
ParamField(key, type, required) == [key |-> key, type |-> type, required |-> required]

ParamFields(tool) ==
    CASE tool = "navigate" ->
            {ParamField("url", "string", TRUE), ParamField("wait_for_load", "bool", FALSE)}
      [] tool = "input" ->
            {ParamField("selector", "string", TRUE), ParamField("text", "string", TRUE),
             ParamField("clear", "bool", FALSE)}
      [] tool = "wait" ->
            {ParamField("selector", "string", TRUE),
             ParamField("timeout_ms", "unsigned", FALSE)}
      [] tool = "evaluate" ->
            {ParamField("code", "string", TRUE), ParamField("await_promise", "bool", FALSE)}
      [] tool = "screenshot" ->
            {ParamField("path", "string", TRUE), ParamField("full_page", "bool", FALSE)}
      [] OTHER -> {}

HasType(v, type) ==
    CASE type = "string" -> IsStr(v)
      [] type = "bool" -> IsBool(v)
      [] type = "unsigned" -> IsUnsigned(v)

\* params does not deserialize into the tool's parameter type: it is no
\* object, a required field is missing, or a field holds a value of the wrong
\* type; for click, neither a string selector nor an unsigned index is there
Malformed(tool, params) ==
    \/ params.t # "object"
    \/ /\ params.t = "object"
       /\ IF tool = "click"
          THEN /\ ~(Has(params.o, "selector") /\ IsStr(params.o["selector"]))
               /\ ~(Has(params.o, "index") /\ IsUnsigned(params.o["index"]))
          ELSE \E f \in ParamFields(tool) :
                  \/ f.required /\ ~Has(params.o, f.key)
                  \/ Has(params.o, f.key) /\ ~HasType(params.o[f.key], f.type)

\* C3: navigate, click, input, wait, evaluate and screenshot, called with
\* parameters that do not deserialize, return InvalidArgument, issue no session
\* command and no extraction, and leave the context's cached tree as it was;
\* called with parameters that do deserialize, they do not return
\* InvalidArgument.
C3_MalformedRejectedFirst ==
    last.tool \in ValueTools =>
        IF Malformed(last.tool, last.params)
        THEN /\ ~last.result.ok
             /\ last.result.err.kind = "InvalidArgument"
             /\ last.trace = <<>>
             /\ dom_tree = last.before
        ELSE last.result.ok \/ last.result.err.kind # "InvalidArgument"

\* an input call whose required fields are fine and whose optional clear is
\* no boolean, after an earlier call
C3_Witness ==
    /\ last.tool = "input"
    /\ ncalls > 1
    /\ last.params.t = "object"
    /\ Has(last.params.o, "selector") /\ IsStr(last.params.o["selector"])
    /\ Has(last.params.o, "text") /\ IsStr(last.params.o["text"])
    /\ Has(last.params.o, "clear") /\ ~IsBool(last.params.o["clear"])
    /\ ~last.result.ok
    /\ last.result.err.kind = "InvalidArgument"
    /\ last.trace = <<>>

(***************************************************************************)
(* Properties of error reporting in navigate, click and input              *)
(***************************************************************************)
\* the last call issued cmd and cmd failed
Failed(cmd) == \E i \in DOMAIN last.trace : last.trace[i].cmd = cmd /\ ~last.trace[i].ok

\* C4 as stated: in navigate, click and input every failure of navigate,
\* wait_for_navigation, find_element, click or type_into comes back as
\* ToolExecutionFailed carrying the tool's name.
C4_EveryFailureWrapped ==
    (/\ last.tool \in {"navigate", "click", "input"}
     /\ \E cmd \in {"navigate", "wait_for_navigation", "find_element", "click",
                     "type_into"} : Failed(cmd))
        => /\ ~last.result.ok
           /\ last.result.err.kind = "ToolExecutionFailed"
           /\ last.result.err.tool = last.tool

\* C4, amended: a failing element.click() in click and a failing type_into in
\* input come back as ToolExecutionFailed carrying the tool's name and the
\* failure's text; a failing session.navigate, wait_for_navigation or
\* find_element comes back unchanged, as the error the session produced; the
\* focusing click of input (clear = true) may fail without failing the call.
C4_WrappedWhereMapped ==
    last.tool \in {"navigate", "click", "input"} =>
        /\ (last.tool = "click" /\ Failed("click")) =>
              last.result = Err(ToolExecutionFailed("click", to_string(RawError("click"))))
        /\ (last.tool = "input" /\ Failed("type_into")) =>
              last.result = Err(ToolExecutionFailed("input", to_string(RawError("type_into"))))
        /\ \A cmd \in {"navigate", "wait_for_navigation", "find_element"} :
              Failed(cmd) => last.result = Err(SessionError(cmd))
        /\ (last.tool = "input" /\ Failed("click") /\ ~Failed("type_into")) =>
              last.result.ok
        /\ ~last.result.ok =>
              \/ last.result.err.kind \in {"InvalidArgument", "ElementNotFound"}
              \/ \E cmd \in {"extract_dom", "navigate", "wait_for_navigation",
                              "find_element", "click", "type_into"} : Failed(cmd)

\* a click whose element was found and whose click failed
C4_Witness ==
    /\ last.tool = "click"
    /\ ~Failed("find_element")
    /\ Failed("click")
    /\ last.result = Err(ToolExecutionFailed("click", to_string(RawError("click"))))

(***************************************************************************)
(* Properties of the registry                                              *)
(***************************************************************************)
\* C5: ToolRegistry::execute on a name that is not registered returns Ok with
\* a ToolResult that has success = false, no data and an error message
\* containing the requested name; no tool is invoked, no session command is
\* issued, and the context is left as it was.
C5_UnknownNameIsFailureResult ==
    [][(ncalls' = ncalls + 1 /\ ~registry_has(registry, last'.requested)) =>
          /\ last'.result.ok
          /\ ~last'.result.v.success
          /\ last'.result.v.data = None
          /\ last'.result.v.error.some
          /\ \E i \in DOMAIN last'.result.v.error.v :
                last'.result.v.error.v[i] = last'.requested
          /\ last'.invoked = None
          /\ last'.trace = <<>>
          /\ dom_tree' = dom_tree
          /\ page' = page
          /\ extractions' = extractions]_vars

\* a dispatch on "does-not-exist" against the default registry
C5_Witness ==
    /\ last.tool = "dispatch"
    /\ last.requested = "does-not-exist"
    /\ registry_count(registry) = Len(DefaultTools)
    /\ last.result.ok
    /\ ~last.result.v.success
    /\ last.invoked = None

\* the names registered so far
RegisteredNames(log) == {log[i].name : i \in DOMAIN log}

\* the tool most recently registered under name
Latest(log, name) ==
    log[CHOOSE i \in DOMAIN log :
            /\ log[i].name = name
            /\ \A j \in DOMAIN log : log[j].name = name => j <= i]

RegistryHoldsLatest ==
    /\ DOMAIN registry = RegisteredNames(registered)
    /\ \A n \in DOMAIN registry : registry[n] = Latest(registered, n)
    /\ registry_count(registry) = Cardinality(RegisteredNames(registered))

RegisterReplaces ==
    registered' # registered =>
        LET tool == registered'[Len(registered')] IN
        /\ registry_get(registry', tool.name) = Some(tool)
        /\ registry_count(registry') =
              IF registry_has(registry, tool.name)
              THEN registry_count(registry)
              ELSE registry_count(registry) + 1
        /\ \A n \in DOMAIN registry \ {tool.name} : registry'[n] = registry[n]

DispatchReachesLatest ==
    (ncalls' = ncalls + 1 /\ last'.requested \in RegisteredNames(registered)) =>
        last'.invoked = Some(Latest(registered, last'.requested))

\* C6: after any sequence of register calls the registry maps each registered
\* name to one tool, the one most recently registered under it, and count is
\* the number of distinct names; a register under an occupied name replaces the
\* tool and leaves count and every other entry unchanged; a dispatch by a
\* registered name invokes the tool most recently registered under it.
C6_LastRegistrationWins ==
    /\ []RegistryHoldsLatest
    /\ [][RegisterReplaces /\ DispatchReachesLatest]_vars

\* click registered by with_defaults and twice more, then dispatched
C6_Witness ==
    /\ Len(registered) = Len(DefaultTools) + 2
    /\ registered[Len(DefaultTools) + 1] = ToolObj("click", 1)
    /\ registered[Len(DefaultTools) + 2] = ToolObj("click", 2)
    /\ registry_count(registry) = Len(DefaultTools)
    /\ last.tool = "dispatch"
    /\ last.requested = "click"
    /\ last.invoked = Some(ToolObj("click", 2))

(***************************************************************************)
(* Properties of a context built around a supplied tree                    *)
(***************************************************************************)
\* C7: on a context made by ToolContext::with_dom no extract_dom call is ever
\* issued, the cached tree stays the supplied one, and every get_dom succeeds
\* and returns the supplied tree.
C7_WithDomNeverExtracts ==
    ctor.kind = "with_dom" =>
        /\ extractions = <<>>
        /\ Extractions(last.trace) = <<>>
        /\ dom_tree = ctor.tree
        /\ \A i \in GetDomEvents(last.trace) :
              /\ last.trace[i].ok
              /\ last.trace[i].ret = ctor.tree

\* a third call asks for the tree while the page on show would extract to
\* another tree than the supplied one
C7_Witness ==
    /\ ctor.kind = "with_dom"
    /\ ncalls = 3
    /\ GetDomEvents(last.trace) # {}
    /\ ExtractedDom(page) # ctor.tree.v
    /\ last.result.ok

(***************************************************************************)
(* Properties of ToolResult                                                *)
(***************************************************************************)
ResultShape ==
    /\ tr.success => tr.error = None
    /\ ~tr.success => (tr.error.some /\ tr.data = None)

MetadataAdded ==
    last.tool = "with_metadata" =>
        /\ Has(tr.metadata, last.params.key)
        /\ tr.metadata[last.params.key] = last.params.value

MetadataOnly ==
    /\ tr'.success = tr.success
    /\ tr'.data = tr.data
    /\ tr'.error = tr.error
    /\ \A k \in DOMAIN tr.metadata \ {last'.params.key} :
          Has(tr'.metadata, k) /\ tr'.metadata[k] = tr.metadata[k]

\* C8: a ToolResult built by success, success_with or failure and passed
\* through any number of with_metadata calls has no error when success is
\* true, and has an error and no data when success is false; with_metadata
\* stores the value under the key and changes neither success, data, error nor
\* the other metadata entries.
C8_ResultShapeKept ==
    /\ [](ResultShape /\ MetadataAdded)
    /\ [][MetadataOnly]_vars

\* a failure that went through with_metadata for two keys
C8_Witness ==
    /\ ~tr.success
    /\ tr.error.some
    /\ last.tool = "with_metadata"
    /\ Cardinality(DOMAIN tr.metadata) = 2

(***************************************************************************)
(* Properties of the snapshot renderer                                     *)
(***************************************************************************)
RECURSIVE Blanked(_)
\* the tree with every invisible node below the root replaced by an invisible
\* node that has no text, no attributes, no index and no children
Blanked(n) ==
    [n EXCEPT !.children =
        [i \in DOMAIN n.children |->
            IF n.children[i].is_visible
            THEN Blanked(n.children[i])
            ELSE ElementNode_new("div")]]

RECURSIVE InvisibleRenderNothing(_, _)
\* every invisible node below n renders as the empty string at its depth
InvisibleRenderNothing(n, depth) ==
    \A i \in DOMAIN n.children :
        /\ ~n.children[i].is_visible => generate_snapshot(n.children[i], depth + 1) = ""
        /\ InvisibleRenderNothing(n.children[i], depth + 1)

\* C9: a node with is_visible = false at depth > 0 renders as nothing, its
\* descendants included, whatever their visibility, index or tag: the snapshot
\* of a tree does not change when the text, attributes, index, tag and
\* children of such a node are taken away.
C9_InvisibleSubtreePruned ==
    out.some =>
        /\ InvisibleRenderNothing(node, 0)
        /\ out.v = generate_snapshot(Blanked(node), 0)

\* a rendered tree with an invisible child that has a visible, indexed child
C9_Witness ==
    /\ out.some
    /\ \E i \in DOMAIN node.children :
          /\ ~node.children[i].is_visible
          /\ node.children[i].children # <<>>
          /\ node.children[i].children[1].is_visible
          /\ node.children[i].children[1].index.some

\* C10: generate_snapshot at depth 0 gives the same output whether the root's
\* is_visible is true or false.
C10_RootRenderedAnyway ==
    out.some => out.v = generate_snapshot([node EXCEPT !.is_visible = ~@], 0)

\* a rendered tree whose root is invisible, has text of its own and a visible
\* child
C10_Witness ==
    /\ out.some
    /\ ~node.is_visible
    /\ node.text_content.some
    /\ node.children # <<>>
    /\ node.children[1].is_visible
    /\ out.v # ""

(***************************************************************************)
(* Properties of the rendered lines                                        *)
(***************************************************************************)
RECURSIVE Lines(_)
\* the lines of a text, each without the newline that ends it
Lines(s) ==
    IF s = "" THEN <<>>
    ELSE LET k == CHOOSE i \in 1..Len(s) :
                    /\ SubSeq(s, i, i) = "\n"
                    /\ \A j \in 1..(i - 1) : SubSeq(s, j, j) # "\n"
         IN <<SubSeq(s, 1, k - 1)>> \o Lines(SubSeq(s, k + 1, Len(s)))

RECURSIVE LineOwners(_, _)
RECURSIVE LineOwnersOfKids(_, _, _)
LineOwnersOfKids(kids, depth, i) ==
    IF i > Len(kids) THEN <<>>
    ELSE LineOwners(kids[i], depth + 1) \o LineOwnersOfKids(kids, depth, i + 1)

\* the nodes the renderer writes a line for, in the order it reaches them
LineOwners(n, depth) ==
    IF SkipInvisible(n, depth) THEN <<>>
    ELSE (IF OwnOutput(n, depth) # "" THEN <<n>> ELSE <<>>)
         \o (IF VisitsChildren(n) THEN LineOwnersOfKids(n.children, depth, 1)
             ELSE <<>>)

StartsWith(line, prefix) ==
    Len(line) >= Len(prefix) /\ SubSeq(line, 1, Len(prefix)) = prefix

\* C11: in a snapshot of a tree in which only interactive nodes carry an index,
\* the line written for a node with an index starts with "[index] " and has
\* content after it, and the line written for a node without an index does not
\* start with a bracket; one line per node that writes any, in every branch.
C11_IndexPrefixOnEveryLine ==
    out.some =>
        LET lines == Lines(out.v)
            owners == LineOwners(node, 0)
        IN /\ Len(lines) = Len(owners)
           /\ \A i \in DOMAIN owners :
                 IF owners[i].index.some
                 THEN LET prefix == "[" \o ToString(owners[i].index.v) \o "] "
                      IN StartsWith(lines[i], prefix) /\ Len(lines[i]) > Len(prefix)
                 ELSE ~StartsWith(lines[i], "[")

\* an element of the default branch with a two-digit index, rendered
C11_Witness ==
    /\ out.some
    /\ node.tag_name = "summary"
    /\ node.index = Some(10)
    /\ node.text_content = None
    /\ out.v = "[10] <summary>\n"

(***************************************************************************)
(* Properties of the block container branch                                *)
(***************************************************************************)
\* the trimmed text of a node, "" when it has none
TrimmedText(n) == IF n.text_content.some THEN trim(n.text_content.v) ELSE ""

\* the renderings of all children of n, one after the other
AllChildren(n, depth) == ChildrenOutput(n.children, depth, 1)

RECURSIVE OwnTextAlwaysShown(_, _)
\* every block container the renderer reaches writes its text, when it has
\* any, and then the renderings of all its children
OwnTextAlwaysShown(n, depth) ==
    SkipInvisible(n, depth)
    \/ /\ (n.tag_name \in BlockContainers /\ TrimmedText(n) # "") =>
              generate_snapshot(n, depth) =
                  append_with_index(n, get_text_content(n)) \o AllChildren(n, depth)
       /\ \A i \in DOMAIN n.children : OwnTextAlwaysShown(n.children[i], depth + 1)

\* C12 as stated: a visible block container with non-empty text renders that
\* text and then all its children, whether or not it has children.
C12_ChildrenNeverSuppressText ==
    out.some => OwnTextAlwaysShown(node, 0)

\* the text a block container shows: its text when it has no children; with
\* children, its text only if that is shorter than DirectTextMax bytes and no
\* child is visible
ShownText(n) ==
    IF n.children = <<>> THEN get_text_content(n)
    ELSE IF /\ TrimmedText(n) # ""
            /\ Len(TrimmedText(n)) < DirectTextMax
            /\ \A i \in DOMAIN n.children : ~n.children[i].is_visible
    THEN TrimmedText(n)
    ELSE ""

RECURSIVE BlockContainersRendered(_, _)
BlockContainersRendered(n, depth) ==
    SkipInvisible(n, depth)
    \/ /\ n.tag_name \in BlockContainers =>
              generate_snapshot(n, depth) =
                  (IF ShownText(n) # "" THEN append_with_index(n, ShownText(n)) ELSE "")
                  \o AllChildren(n, depth)
       /\ \A i \in DOMAIN n.children : BlockContainersRendered(n.children[i], depth + 1)

\* C12, amended: a block container the renderer reaches always renders all its
\* children at depth + 1 after its own line, text or no text; its own text is
\* written when it has no children, or when none of its children is visible
\* and the trimmed text is non-empty and shorter than 100 bytes, and is not
\* written otherwise.
C12_TextShownWithoutVisibleChildren ==
    out.some => BlockContainersRendered(node, 0)

\* a container with text of 99 bytes over an invisible child (text shown), and
\* a container with text over a visible child (text not shown)
C12_Witness ==
    /\ out.some
    /\ node.tag_name = "div"
    /\ node.is_visible
    /\ Len(node.children) = 1
    /\ node.children[1].tag_name = "div"
    /\ Len(TrimmedText(node.children[1])) = DirectTextMax - 1
    /\ Len(node.children[1].children) = 1
    /\ ~node.children[1].children[1].is_visible
    /\ out.v = TrimmedText(node.children[1]) \o "\n"

(***************************************************************************)
(* Properties of text truncation                                           *)
(***************************************************************************)
\* the number of characters of a text: the bytes that start one
CharCount(s) == Cardinality({i \in 1..Len(s) : SubSeq(s, i, i) # ContinuationByte})

\* the first k characters of a text that has more than k
FirstChars(s, k) ==
    SubSeq(s, 1, CHOOSE j \in 0..Len(s) :
                    /\ is_char_boundary(s, j)
                    /\ CharCount(SubSeq(s, 1, j)) = k)

\* the text unchanged when it has at most max characters, else its first keep
\* characters and an ellipsis
Truncated(s, max, keep) ==
    IF CharCount(s) <= max THEN s ELSE FirstChars(s, keep) \o "..."

\* the listing's only entry, for an element of the given index, tag and text
ListingEntry(index, tag, text) ==
    "[" \o ToString(index) \o "]<" \o tag \o ">" \o text \o "</" \o tag \o ">"

\* C13: for every trimmed text, the clickable-elements listing shows it
\* unchanged when it has at most 100 characters and otherwise shows its first
\* 97 characters and "..."; the snapshot's get_text_content (seen through a
\* button) shows it unchanged when it has at most 200 characters and otherwise
\* shows its first 197 characters and "...".
C13_TruncationThresholds ==
    TrimmedText(node) # "" =>
        /\ (last.tool = "get_clickable_elements" /\ node.index.some) =>
              /\ last.result.ok
              /\ last.result.v.data.v.o["elements"] =
                    JStr(ListingEntry(node.index.v, node.tag_name,
                                      Truncated(TrimmedText(node), 100, 97)))
        /\ (out # None /\ node.tag_name = "button") =>
              /\ out.some
              /\ out.v = append_with_index(node, Truncated(TrimmedText(node), 200, 197))

\* C13 on texts of one-byte characters only
C13_OnAsciiTexts ==
    (node.text_content.some /\ CharCount(node.text_content.v) = Len(node.text_content.v))
        => C13_TruncationThresholds

(***************************************************************************)
(* Properties of links                                                     *)
(***************************************************************************)
\* the element's text as a snapshot line carries it: trimmed, and cut to 200
\* bytes when longer
RenderedText(n) ==
    IF Len(TrimmedText(n)) <= 200
    THEN TrimmedText(n)
    ELSE SubSeq(TrimmedText(n), 1, 197) \o "..."

\* the value of the href attribute, empty when the attribute is absent
HrefOf(n) == IF "href" \in DOMAIN n.attributes THEN n.attributes["href"] ELSE ""

\* the one line of a rendered element, without its index prefix and newline
LineContent(n, s) ==
    LET prefix == IF n.index.some THEN "[" \o ToString(n.index.v) \o "] " ELSE ""
    IN SubSeq(s, Len(prefix) + 1, Len(s) - 1)

\* C14: a visible link is rendered as "text (href)" when its trimmed text and
\* its href are both non-empty, as the text alone when only the text is
\* non-empty, and as "<link href>", the href possibly empty, when the text is
\* empty.
C14_LinkForms ==
    (out # None /\ out.some /\ node.tag_name = "a" /\ node.is_visible) =>
        LineContent(node, out.v) =
            CASE TrimmedText(node) # "" /\ HrefOf(node) # "" ->
                    RenderedText(node) \o " (" \o HrefOf(node) \o ")"
              [] TrimmedText(node) # "" /\ HrefOf(node) = "" -> RenderedText(node)
              [] OTHER -> "<link " \o HrefOf(node) \o ">"

\* the link of index 5, text "Example Link" and target https://example.com
C14_Witness ==
    /\ node.tag_name = "a" /\ node.index = Some(5)
    /\ node.text_content = Some("Example Link")
    /\ out = Some("[5] Example Link (https://example.com)\n")

(***************************************************************************)
(* Properties of the listing of clickable elements                         *)
(***************************************************************************)
\* C15: when the tree get_clickable_elements works on has no indexed element,
\* the call succeeds with the empty string as elements and 0 as count.
C15_EmptyListing ==
    (/\ last.tool = "get_clickable_elements"
     /\ dom_tree.some
     /\ interactive_indices(dom_tree.v) = <<>>) =>
        /\ last.result.ok
        /\ last.result.v.success
        /\ last.result.v.error = None
        /\ last.result.v.data.some
        /\ last.result.v.data.v.t = "object"
        /\ DOMAIN last.result.v.data.v.o = {"elements", "count"}
        /\ last.result.v.data.v.o["elements"] = JStr("")
        /\ last.result.v.data.v.o["count"] = JNum(0)

\* the listing was asked of a page without any indexed element
C15_Witness ==
    /\ last.tool = "get_clickable_elements"
    /\ dom_tree.some
    /\ dom_tree.v.selector_map = EmptyMap
    /\ last.result.ok
    /\ last.result.v.data.v.o["count"] = JNum(0)

(***************************************************************************)
(* Properties of navigate                                                  *)
(***************************************************************************)
\* the last call was a navigate whose parameters parse
NavigateParsed ==
    /\ last.tool = "navigate"
    /\ last.params.t = "object"
    /\ "url" \in DOMAIN last.params.o
    /\ last.params.o["url"].t = "string"
    /\ "wait_for_load" \in DOMAIN last.params.o
            => last.params.o["wait_for_load"].t = "bool"

\* wait_for_load as the caller gave it, true when the caller left it out
WaitForLoad ==
    IF "wait_for_load" \in DOMAIN last.params.o
    THEN last.params.o["wait_for_load"].b
    ELSE TRUE

\* the positions of a command in the session calls of the last invocation
IssuedAt(cmd) == {i \in DOMAIN last.trace : last.trace[i].cmd = cmd}

\* C16: navigate issues session.navigate(url) first; wait_for_navigation is
\* issued if and only if wait_for_load is true (true when omitted) and
\* navigate succeeded, and only after it; a success carries the payload
\* {url, waited} with waited equal to wait_for_load.
C16_NavigateThenWait ==
    NavigateParsed =>
        /\ IssuedAt("navigate") = {1}
        /\ last.trace[1].arg = last.params.o["url"].s
        /\ IssuedAt("wait_for_navigation") =
                IF WaitForLoad /\ last.trace[1].ok THEN {2} ELSE {}
        /\ Len(last.trace) <= 2
        /\ last.result.ok <=> \A i \in DOMAIN last.trace : last.trace[i].ok
        /\ last.result.ok =>
              /\ last.result.v.success
              /\ last.result.v.data =
                    Some(JObj([url |-> last.params.o["url"],
                               waited |-> JBool(WaitForLoad)]))

\* a navigate without wait_for_load that went through and waited
C16_Witness ==
    /\ NavigateParsed
    /\ "wait_for_load" \notin DOMAIN last.params.o
    /\ last.result.ok
    /\ IssuedAt("wait_for_navigation") = {2}
    /\ last.result.v.data.v.o["waited"] = JBool(TRUE)

(***************************************************************************)
(* Properties of the selector-or-index parameters                          *)
(***************************************************************************)
\* the last call was a click whose parameters carry a string under selector
SelectorKey ==
    /\ last.tool = "click" /\ last.params.t = "object"
    /\ Has(last.params.o, "selector") /\ IsStr(last.params.o["selector"])

\* the last call was a click whose parameters carry an unsigned integer under index
IndexKey ==
    /\ last.tool = "click" /\ last.params.t = "object"
    /\ Has(last.params.o, "index") /\ IsUnsigned(last.params.o["index"])

\* the selector map was left alone and the session got the literal locator
LiteralLocatorUsed(locator) ==
    /\ IssuedAt("get_dom") = {} /\ IssuedAt("get_selector") = {}
    /\ ElementCommands(last.trace) # {}
    /\ \A j \in ElementCommands(last.trace) : last.trace[j].arg = locator
    /\ (last.tool = "click" /\ last.result.ok) =>
            last.result.v.data.v.o["method"] = JStr("css")

\* the tree was asked for, and the session got nothing but the entry of the
\* selector map for the index
MapEntryUsed(index) ==
    /\ IssuedAt("get_dom") # {}
    /\ dom_tree.some => IssuedAt("get_selector") # {}
    /\ \A j \in IssuedAt("get_selector") : last.trace[j].index = index
    /\ \A j \in ElementCommands(last.trace) :
          /\ dom_tree.some
          /\ index \in DOMAIN dom_tree.v.selector_map
          /\ last.trace[j].arg = dom_tree.v.selector_map[index].css_selector
    /\ (last.tool = "click" /\ last.result.ok) =>
            last.result.v.data.v.o["method"] = JStr("index")

\* hover and select, whose parameters arrive parsed, follow the variant
TypedVariantFollowed ==
    last.tool \in {"hover", "select"} =>
        IF last.params.selector.variant = "Css"
        THEN LiteralLocatorUsed(last.params.selector.selector)
        ELSE MapEntryUsed(last.params.selector.index)

\* C17 as stated: parameters carrying a selector key parse to the
\* literal-locator variant and the string is used as the locator without the
\* selector map being consulted; parameters carrying an index key parse to the
\* index variant and the session gets exactly the selector-map entry of that
\* index.
C17_KeyDecidesVariant ==
    /\ SelectorKey => LiteralLocatorUsed(last.params.o["selector"].s)
    /\ IndexKey => MapEntryUsed(last.params.o["index"].n)
    /\ TypedVariantFollowed

\* C17 (amended): parameters carrying a string under selector parse to the
\* literal-locator variant, an index key beside it being ignored, and the
\* string is used as the locator without the selector map being consulted;
\* parameters carrying an unsigned integer under index and no string under
\* selector parse to the index variant and the session gets exactly the
\* selector-map entry of that index.
C17_SelectorKeyWins ==
    /\ SelectorKey => LiteralLocatorUsed(last.params.o["selector"].s)
    /\ (IndexKey /\ ~SelectorKey) => MapEntryUsed(last.params.o["index"].n)
    /\ TypedVariantFollowed

\* a click given both keys went through on the literal locator
C17_Witness ==
    /\ SelectorKey /\ IndexKey
    /\ last.result.ok
    /\ last.result.v.data.v.o["method"] = JStr("css")
    /\ \E j \in IssuedAt("find_element") :
            last.trace[j].arg = last.params.o["selector"].s

(***************************************************************************)
(* Properties of failure handling                                          *)
(***************************************************************************)
\* the commands that go to the browser session
BrowserCommands == SessionCmds \ {"fs_write"}

\* the positions in the last invocation at which the session was called
SessionCalls == {i \in DOMAIN last.trace : last.trace[i].cmd \in BrowserCommands}

\* C18: within one invocation of navigate, click, wait, evaluate, screenshot,
\* hover or select every session command is issued at most once, and the first
\* command to fail ends the invocation with an error, no session command
\* being issued after it.
C18_NoRetries ==
    last.tool \in {"navigate", "click", "wait", "evaluate", "screenshot",
                   "hover", "select"} =>
        /\ \A c \in BrowserCommands : Cardinality(IssuedAt(c)) <= 1
        /\ \A i \in SessionCalls :
              ~last.trace[i].ok =>
                  /\ ~last.result.ok
                  /\ \A j \in SessionCalls : j <= i

\* a click whose element was found and whose click failed
C18_Witness ==
    /\ last.tool = "click"
    /\ \E i \in IssuedAt("find_element") : last.trace[i].ok
    /\ \E i \in IssuedAt("click") : ~last.trace[i].ok
    /\ ~last.result.ok

(***************************************************************************)
(* Properties of the indexer                                               *)
(***************************************************************************)
\* every node that carries an index is interactive
RECURSIVE OnlyInteractiveIndexed(_)
OnlyInteractiveIndexed(n) ==
    /\ n.index.some => n.is_interactive
    /\ \A i \in DOMAIN n.children : OnlyInteractiveIndexed(n.children[i])

\* C19: in every built tree no two distinct nodes share an index, and only
\* nodes with is_interactive = true carry one.
C19_IndicesUniqueAndInteractive ==
    dom_tree.some =>
        /\ CountIndexed(dom_tree.v.root) = Cardinality(IndicesOf(dom_tree.v.root))
        /\ OnlyInteractiveIndexed(dom_tree.v.root)

\* a built tree with two indexed nodes, an interactive node left unindexed
\* and a node that is not interactive
C19_Witness ==
    /\ dom_tree.some
    /\ CountIndexed(dom_tree.v.root) = 2
    /\ CountInteractiveNode(dom_tree.v.root) = 3
    /\ count_elements(dom_tree.v.root) = 4

\* the indices of a tree, a parent's before its children's, siblings' in
\* child order
RECURSIVE PreOrderIndices(_)
RECURSIVE PreOrderIndicesOfKids(_, _)
PreOrderIndicesOfKids(kids, i) ==
    IF i > Len(kids) THEN <<>>
    ELSE PreOrderIndices(kids[i]) \o PreOrderIndicesOfKids(kids, i + 1)

PreOrderIndices(n) ==
    (IF n.index.some THEN <<n.index.v>> ELSE <<>>)
    \o PreOrderIndicesOfKids(n.children, 1)

\* C20: read in pre-order (a parent before its children, siblings in child
\* order) the indices of a built tree are 0, 1, 2, ... without a gap, and
\* interactive_indices() returns them in that same order.
C20_PreOrderNumbering ==
    dom_tree.some =>
        /\ PreOrderIndices(dom_tree.v.root) =
              [k \in 1..CountIndexed(dom_tree.v.root) |-> k - 1]
        /\ interactive_indices(dom_tree.v) = PreOrderIndices(dom_tree.v.root)

\* a first child numbered 0, its own child 1 and its younger sibling 2
C20_Witness ==
    /\ dom_tree.some
    /\ Len(dom_tree.v.root.children) = 2
    /\ dom_tree.v.root.children[1].index = Some(0)
    /\ Len(dom_tree.v.root.children[1].children) = 1
    /\ dom_tree.v.root.children[1].children[1].index = Some(1)
    /\ dom_tree.v.root.children[2].index = Some(2)
    /\ interactive_indices(dom_tree.v) = <<0, 1, 2>>

(***************************************************************************)
(* Properties of the cached tree                                           *)
(***************************************************************************)
\* an index-based call found the tree cached before it, and used its map
ResolvedAgainstCached ==
    (IndexBased /\ last.before.some) =>
        /\ dom_tree = last.before
        /\ IssuedAt("extract_dom") = {}
        /\ \A i \in IssuedAt("get_dom") : last.trace[i].ret = last.before
        /\ \A j \in ElementCommands(last.trace) :
              /\ LastIndex \in DOMAIN last.before.v.selector_map
              /\ last.trace[j].arg = last.before.v.selector_map[LastIndex].css_selector

\* C22: once the context's dom_tree is populated no tool execution changes or
\* clears it, a navigate included, and an index-based click, hover or select
\* resolves its index against the tree that was cached before the call.
C22_PopulatedTreeKept ==
    /\ [][dom_tree.some => dom_tree' = dom_tree]_vars
    /\ []ResolvedAgainstCached

\* an index-based click succeeded on the tree extracted from u1 while the
\* session, having navigated, shows u2
C22_Witness ==
    /\ ctor.kind = "new"
    /\ dom_tree = Some(U1Dom) /\ last.before = Some(U1Dom)
    /\ page = "u2"
    /\ last.tool = "click" /\ IndexBased
    /\ last.result.ok

(***************************************************************************)
(* Properties of a failed extraction                                       *)
(***************************************************************************)
\* the last extraction the context issued failed
LastExtractionFailed ==
    extractions # <<>> /\ ~extractions[Len(extractions)]

\* a failed extract_dom is what the call returns, and nothing is cached
FailureReturnedNotCached ==
    (\E i \in IssuedAt("extract_dom") : ~last.trace[i].ok) =>
        /\ last.result = Err(SessionError("extract_dom"))
        /\ \A i \in IssuedAt("get_dom") : ~last.trace[i].ok
        /\ dom_tree = None

\* C23: when session.extract_dom fails inside get_dom, get_dom returns that
\* error and leaves dom_tree empty; the failure is not cached: the next call
\* of get_dom on the context issues a new extraction.
C23_FailedExtractionNotCached ==
    /\ []FailureReturnedNotCached
    /\ [][(LastExtractionFailed /\ ncalls' = ncalls + 1 /\ IssuedAt("get_dom")' # {})
            => Len(extractions') = Len(extractions) + 1]_vars

\* two calls that asked for the tree, each with an extraction of its own that
\* failed
C23_Witness ==
    /\ extractions = <<FALSE, FALSE>>
    /\ ncalls = 2
    /\ dom_tree = None
    /\ last.result = Err(SessionError("extract_dom"))

(***************************************************************************)
(* Properties of indexed nodes in the snapshot                             *)
(***************************************************************************)
\* the indices of the nodes that are visible and have only visible ancestors
\* below the root
RECURSIVE VisibleIndices(_, _)
VisibleIndices(n, depth) ==
    IF ~n.is_visible
    THEN IF depth = 0
         THEN UNION {VisibleIndices(n.children[i], 1) : i \in DOMAIN n.children}
         ELSE {}
    ELSE (IF n.index.some THEN {n.index.v} ELSE {})
         \cup UNION {VisibleIndices(n.children[i], depth + 1) : i \in DOMAIN n.children}

\* the lines of a snapshot that carry the prefix of an index
LinesOf(index) ==
    {k \in DOMAIN Lines(out.v) :
        StartsWith(Lines(out.v)[k], "[" \o ToString(index) \o "] ")}

\* C24 as stated: every node that carries an index, is visible and has only
\* visible ancestors below the root has exactly one line in the snapshot,
\* prefixed with its index, whatever its tag, its text and its ancestors' tags.
C24_EveryIndexedNodeHasALine ==
    out.some =>
        \A index \in VisibleIndices(node, 0) : Cardinality(LinesOf(index)) = 1

\* the tags that have a rule of their own in the renderer
RuledTags ==
    Headings \cup BlockContainers \cup PureContainers
    \cup {"button", "a", "input", "textarea", "select", "label", "li"}

\* the rule of the node's tag writes a line for it
WritesOwnLine(n) ==
    CASE n.tag_name = "label" -> TrimmedText(n) # ""
      [] n.tag_name \in PureContainers -> FALSE
      [] n.tag_name \in BlockContainers -> ShownText(n) # ""
      [] OTHER -> TRUE

\* an interactive element of a tag without a rule of its own: its line is
\* written and the nodes below it are not visited
EndsTraversal(n) == n.tag_name \notin RuledTags /\ n.is_interactive

\* the indices of the visible nodes that get a line: reached through visible
\* ancestors none of which ends the traversal, and of a tag whose rule writes
RECURSIVE ShownIndices(_, _)
ShownIndices(n, depth) ==
    IF ~n.is_visible /\ depth > 0 THEN {}
    ELSE (IF n.index.some /\ n.is_visible /\ WritesOwnLine(n) THEN {n.index.v} ELSE {})
         \cup (IF EndsTraversal(n) THEN {}
               ELSE UNION {ShownIndices(n.children[i], depth + 1) :
                              i \in DOMAIN n.children})

\* C24 (amended): a node that carries an index, is visible and has only visible
\* ancestors below the root has exactly one line in the snapshot, prefixed
\* with its index, when no ancestor is an interactive element of a tag without
\* a rule of its own and its own tag's rule writes a line; it has no line at
\* all when it is a label with empty text, a pure container, a block or text
\* container whose own text is not shown, or lies below such an interactive
\* element.
C24_IndexedNodeLineByRule ==
    out.some =>
        \A index \in VisibleIndices(node, 0) :
            Cardinality(LinesOf(index)) =
                IF index \in ShownIndices(node, 0) THEN 1 ELSE 0

\* a snapshot with the line of an indexed summary and none for the indexed
\* button below it
C24_Witness ==
    /\ out.some
    /\ Len(node.children) = 1
    /\ node.children[1].tag_name = "summary" /\ node.children[1].index = Some(0)
    /\ Len(node.children[1].children) = 1
    /\ node.children[1].children[1].tag_name = "button"
    /\ node.children[1].children[1].is_visible
    /\ node.children[1].children[1].index = Some(1)
    /\ LinesOf(0) # {} /\ LinesOf(1) = {}

(***************************************************************************)
(* Properties of a non-empty listing                                       *)
(***************************************************************************)
\* the lines of the elements string of the last result
ListingLines ==
    LET elements == last.result.v.data.v.o["elements"].s
    IN IF elements = "" THEN <<>> ELSE Lines(elements \o "\n")

NeedsNoTree ==
    \/ last.tool \in {"navigate", "input", "wait", "evaluate", "screenshot"}
    \/ SelectorKey
    \/ /\ last.tool \in {"hover", "select"}
       /\ last.params.selector.variant = "Css"

\* C27: navigate, input, wait, evaluate and screenshot, and click, hover and
\* select given a literal selector, never call extract_dom nor ask the context
\* for the tree, and leave the context's dom_tree exactly as it was.
C27_NoExtractionWithoutNeed ==
    NeedsNoTree =>
        /\ IssuedAt("extract_dom") = {}
        /\ IssuedAt("get_dom") = {}
        /\ dom_tree = last.before

\* three such calls, the last a click on a literal selector, on a context
\* whose cache is still empty
C27_Witness ==
    /\ ncalls = 3
    /\ extractions = <<>>
    /\ dom_tree = None
    /\ SelectorKey
    /\ last.result.ok

(***************************************************************************)
(* Properties of parameters with both keys or with neither                 *)
(***************************************************************************)
\* the last call was a click, hover or select given an object
SelectorOrIndexCall ==
    /\ last.tool \in {"click", "hover", "select"}
    /\ last.params.t = "object"

\* its parameters hold a string under selector and an index key as well
BothKeys ==
    /\ SelectorOrIndexCall
    /\ Has(last.params.o, "selector") /\ IsStr(last.params.o["selector"])
    /\ Has(last.params.o, "index")
    /\ last.tool = "select" => Has(last.params.o, "value")

\* its parameters hold neither key
NeitherKey ==
    /\ SelectorOrIndexCall
    /\ ~Has(last.params.o, "selector")
    /\ ~Has(last.params.o, "index")

C28_NeitherKeyRefused ==
    /\ last.tool = "select" /\ NeitherKey
    /\ ~last.result.ok /\ last.result.err.kind = "InvalidArgument"

(***************************************************************************)
(* Properties of input                                                     *)
(***************************************************************************)
\* the last call was an input whose parameters parse
InputParsed ==
    /\ last.tool = "input"
    /\ ~Malformed("input", last.params)

\* clear as the caller gave it, false when the caller left it out
ClearAsked ==
    IF "clear" \in DOMAIN last.params.o THEN last.params.o["clear"].b ELSE FALSE

\* the commands of a clearing: one click, one End, len(text) + 100 Backspace
ClearingCommands(text) ==
    <<[cmd |-> "click"], [cmd |-> "press_key", arg |-> "End"]>>
    \o [i \in 1..(Len(text) + 100) |-> [cmd |-> "press_key", arg |-> "Backspace"]]

SuccessTrue(j) ==
    j.t = "object" /\ "success" \in DOMAIN j.o /\ j.o["success"] = JBool(TRUE)

\* the error text of a JSON value, "Unknown error" when it holds none
ErrorText(j) ==
    IF j.t = "object" /\ "error" \in DOMAIN j.o /\ j.o["error"].t = "string"
    THEN j.o["error"].s
    ELSE "Unknown error"

\* what the script handed back says success = true
ReportsSuccess(returned) ==
    /\ returned.some
    /\ IF returned.v.t = "string"
       THEN returned.v.s.parses /\ SuccessTrue(returned.v.s.json)
       ELSE SuccessTrue(returned.v)

\* the reason reported for what the script handed back
ReportedReason(returned) ==
    IF ~returned.some THEN "No result returned"
    ELSE IF returned.v.t # "string" THEN ErrorText(returned.v)
    ELSE IF ~returned.v.s.parses THEN "Failed to parse result"
    ELSE ErrorText(returned.v.s.json)

\* C30: hover and select succeed only when the result of the evaluated script
\* has success = true; a result that is missing, is no JSON or has a success
\* other than true gives ToolExecutionFailed with the tool's own name and the
\* result's error text ("Unknown error" when it has none, and the text of the
\* stand-in result when the result is missing or is no JSON).
C30_ScriptFailureIsAnError ==
    last.tool \in {"hover", "select"} =>
        \A j \in IssuedAt("evaluate") :
            last.trace[j].ok =>
                IF ReportsSuccess(last.trace[j].returned)
                THEN last.result.ok /\ last.result.v.success
                ELSE /\ ~last.result.ok
                     /\ last.result.err.kind = "ToolExecutionFailed"
                     /\ last.result.err.tool = last.tool
                     /\ last.result.err.reason = ReportedReason(last.trace[j].returned)

\* a select whose script handed back text that is no JSON
C30_Witness ==
    /\ last.tool = "select"
    /\ \E j \in IssuedAt("evaluate") :
          /\ last.trace[j].ok
          /\ last.trace[j].returned = Some(JStr(Garbage))
    /\ last.result = Err(ToolExecutionFailed("select", "Failed to parse result"))

====
